---------------------------- MODULE Spec2Model ----------------------------
(***************************************************************************)
(* Model of the username generation engine                                 *)
(*   src/projects/random-username-generator/src/username_generator/        *)
(*     core.py, config.py, wordlists.py                                     *)
(*                                                                         *)
(* A Python str is a sequence of one-character strings, so that length,    *)
(* slicing, case conversion and substring search are computed.  A Python   *)
(* list of str is a sequence of such sequences.  The module-level random   *)
(* source is the environment: every value it can hand out is a             *)
(* nondeterministic choice, restricted to the draws named by the bounds.   *)
(***************************************************************************)
EXTENDS Integers, Sequences, FiniteSets

\* ------------------------------------------------------------------ bounds

\* random.choice(bank) hands out one of the first MaxWordIndex words of a bank
MaxWordIndex == 1

\* random.randint hands out an end of its range or one of the first
\* MaxNumberSamples of NumberSamples
MaxNumberSamples == 0

\* _verbify is called with every word of 1 .. MaxVerbLen letters of VerbLetters
MaxVerbLen == 3

\* _apply_style is called with every list of 1 .. MaxTokens tokens of TokenPool
MaxTokens == 2

\* generate_batch is called with count in -1 .. MaxCount
MaxCount == 2

\* --------------------------------------------------- Python str operations

\* the printable ASCII characters of code 32 (space) to 95 (underscore)
AsciiLow == <<
    " ", "!", "\"", "#", "$", "%", "&", "'", "(", ")", "*", "+", ",", "-", ".", "/",
    "0", "1", "2", "3", "4", "5", "6", "7", "8", "9", ":", ";", "<", "=", ">", "?",
    "@", "A", "B", "C", "D", "E", "F", "G", "H", "I", "J", "K", "L", "M", "N", "O",
    "P", "Q", "R", "S", "T", "U", "V", "W", "X", "Y", "Z", "[", "\\", "]", "^", "_"
  >>

\* the printable ASCII characters of code 97 (a) to 126 (tilde)
AsciiHigh == <<
    "a", "b", "c", "d", "e", "f", "g", "h", "i", "j", "k", "l", "m", "n", "o", "p",
    "q", "r", "s", "t", "u", "v", "w", "x", "y", "z", "{", "|", "}", "~"
  >>

Min(a, b) == IF a < b THEN a ELSE b

Max(a, b) == IF a > b THEN a ELSE b

\* the characters of the two tables
Chars == {AsciiLow[i] : i \in 1..Len(AsciiLow)} \cup {AsciiHigh[i] : i \in 1..Len(AsciiHigh)}

\* ord(ch) of a printable ASCII character, tabulated
OrdTable ==
  [ch \in Chars |->
     IF \E i \in 1..Len(AsciiLow) : AsciiLow[i] = ch
     THEN 31 + (CHOOSE i \in 1..Len(AsciiLow) : AsciiLow[i] = ch)
     ELSE 96 + (CHOOSE i \in 1..Len(AsciiHigh) : AsciiHigh[i] = ch)]

Ord(ch) == OrdTable[ch]

\* chr(n) for 32 <= n <= 126, n # 96
Chr(n) == IF n <= 95 THEN AsciiLow[n - 31] ELSE AsciiHigh[n - 96]

IsUpperChar(ch) == Ord(ch) >= 65 /\ Ord(ch) <= 90

IsLowerChar(ch) == Ord(ch) >= 97 /\ Ord(ch) <= 122

IsAlphaChar(ch) == IsUpperChar(ch) \/ IsLowerChar(ch)

IsDigitChar(ch) == Ord(ch) >= 48 /\ Ord(ch) <= 57

\* the lower-case and upper-case forms of each character, tabulated
LowerTable == [ch \in Chars |-> IF IsUpperChar(ch) THEN Chr(Ord(ch) + 32) ELSE ch]

UpperTable == [ch \in Chars |-> IF IsLowerChar(ch) THEN Chr(Ord(ch) - 32) ELSE ch]

CharLower(ch) == LowerTable[ch]

CharUpper(ch) == UpperTable[ch]

\* the variant of str.lower() that leaves every character as it is
lower_keeps_case(s) == s

\* str.lower()
lower(s) == [k \in 1..Len(s) |-> CharLower(s[k])]

\* str.upper()
upper(s) == [k \in 1..Len(s) |-> CharUpper(s[k])]

\* str.isalpha(): at least one character and every character a letter
isalpha(s) == Len(s) > 0 /\ \A k \in 1..Len(s) : IsAlphaChar(s[k])

\* str.isdigit()
isdigit(s) == Len(s) > 0 /\ \A k \in 1..Len(s) : IsDigitChar(s[k])

\* the variant of str.capitalize() that changes nothing
capitalize_nothing(s) == s

\* the variant of str.capitalize() that upper-cases every character
capitalize_every_letter(s) == upper(s)

\* str.capitalize(): first character upper-cased, the rest lower-cased
capitalize(s) == IF s = <<>> THEN <<>> ELSE <<CharUpper(s[1])>> \o lower(Tail(s))

\* the variant s[:max(k, 0)] of the slice, which reads a negative k as 0
SliceTo_clamps_negative(s, k) == SubSeq(s, 1, Min(Max(k, 0), Len(s)))


\* s[:k], with Python's reading of a negative k as len(s) + k
SliceTo(s, k) ==
  LET stop == IF k < 0 THEN Max(Len(s) + k, 0) ELSE Min(k, Len(s))
  IN  SubSeq(s, 1, stop)

\* s[k:] for k >= 0
SliceFrom(s, k) == SubSeq(s, Min(k, Len(s)) + 1, Len(s))

\* s[k] with Python's reading of a negative k (k = -1 is the last character)
CharAt(s, k) == IF k < 0 THEN s[Len(s) + k + 1] ELSE s[k + 1]

\* s.startswith(lit, at): lit occurs in s at 0-based offset at
OccursAt(s, at, lit) ==
  /\ at + Len(lit) <= Len(s)
  /\ \A k \in 1..Len(lit) : s[at + k] = lit[k]

\* str.endswith
endswith(s, lit) == Len(lit) <= Len(s) /\ OccursAt(s, Len(s) - Len(lit), lit)

\* "lit in s"
Contains(s, lit) == \E at \in 0..Len(s) : OccursAt(s, at, lit)

\* "ch in chars" for a single character
CharIn(ch, chars) == \E k \in 1..Len(chars) : chars[k] = ch

\* the variant of join that also puts the separator after the last token
RECURSIVE join_with_trailing_separator(_, _)
join_with_trailing_separator(sep, tokens) ==
  IF tokens = <<>> THEN <<>>
  ELSE tokens[1] \o sep \o join_with_trailing_separator(sep, Tail(tokens))

\* sep.join(tokens)
RECURSIVE join(_, _)
join(sep, tokens) ==
  IF tokens = <<>> THEN <<>>
  ELSE IF Len(tokens) = 1 THEN tokens[1]
  ELSE tokens[1] \o sep \o join(sep, Tail(tokens))

\* the variant f"{n:04d}" of the conversion, which pads to four digits
str_zero_padded(n) ==
  <<Chr(48 + ((n \div 1000) % 10)), Chr(48 + ((n \div 100) % 10)),
    Chr(48 + ((n \div 10) % 10)), Chr(48 + (n % 10))>>


\* str(n) for an int n >= 0: decimal digits, no sign, no leading zero
RECURSIVE str(_)
str(n) ==
  IF n < 10 THEN <<Chr(48 + n)>>
  ELSE str(n \div 10) \o <<Chr(48 + (n % 10))>>

\* a < b in Python's order on str (code points, then length)
RECURSIVE StrLess(_, _)
StrLess(a, b) ==
  IF b = <<>> THEN FALSE
  ELSE IF a = <<>> THEN TRUE
  ELSE IF a[1] # b[1] THEN Ord(a[1]) < Ord(b[1])
  ELSE StrLess(Tail(a), Tail(b))

\* sorted(names, reverse=True): the variant of sorted that lists the names in
\* descending order
RECURSIVE sorted_descending(_)
sorted_descending(names) ==
  IF names = {} THEN <<>>
  ELSE LET greatest == CHOOSE a \in names : \A b \in names \ {a} : StrLess(b, a)
       IN  <<greatest>> \o sorted_descending(names \ {greatest})

\* sorted(names) for pairwise distinct str: ascending by StrLess
RECURSIVE sorted(_)
sorted(names) ==
  IF names = {} THEN <<>>
  ELSE LET least == CHOOSE a \in names : \A b \in names \ {a} : StrLess(a, b)
       IN  <<least>> \o sorted(names \ {least})

\* --------------------------------------------------------- wordlists.py

ADJECTIVES == <<
    <<"a","c","o","u","s","t","i","c">>, <<"a","n","c","i","e","n","t">>,
    <<"a","q","u","a","t","i","c">>, <<"a","r","c","t","i","c">>,
    <<"a","s","t","r","a","l">>, <<"b","l","a","z","i","n","g">>,
    <<"b","o","l","d">>, <<"b","o","u","n","c","y">>,
    <<"b","r","a","v","e">>, <<"b","r","e","e","z","y">>,
    <<"c","a","l","m">>, <<"c","e","l","e","s","t","i","a","l">>,
    <<"c","h","a","o","t","i","c">>, <<"c","h","e","e","k","y">>,
    <<"c","l","e","v","e","r">>, <<"c","o","b","a","l","t">>,
    <<"c","o","m","e","t">>, <<"c","o","p","p","e","r">>,
    <<"c","o","s","m","i","c">>, <<"c","o","z","y">>,
    <<"c","r","i","m","s","o","n">>, <<"c","r","y","s","t","a","l">>,
    <<"c","u","r","i","o","u","s">>, <<"c","y","b","e","r">>,
    <<"d","a","r","i","n","g">>, <<"d","a","z","z","l","i","n","g">>,
    <<"d","e","e","p">>, <<"d","i","g","i","t","a","l">>,
    <<"d","i","z","z","y">>, <<"d","r","e","a","m","y">>,
    <<"d","r","i","f","t","i","n","g">>, <<"d","u","s","t","y">>,
    <<"d","y","n","a","m","i","c">>, <<"e","a","g","e","r">>,
    <<"e","l","e","c","t","r","i","c">>, <<"e","m","e","r","a","l","d">>,
    <<"e","p","i","c">>, <<"e","t","e","r","n","a","l">>,
    <<"f","a","n","c","y">>, <<"f","e","a","r","l","e","s","s">>,
    <<"f","i","e","r","c","e">>, <<"f","i","z","z","y">>,
    <<"f","l","u","f","f","y">>, <<"f","l","y","i","n","g">>,
    <<"f","o","g","g","y">>, <<"f","r","o","z","e","n">>,
    <<"f","u","n","k","y">>, <<"f","u","z","z","y">>,
    <<"g","a","l","a","c","t","i","c">>, <<"g","e","n","t","l","e">>,
    <<"g","h","o","s","t","l","y">>, <<"g","i","a","n","t">>,
    <<"g","l","a","c","i","a","l">>, <<"g","l","o","w","i","n","g">>,
    <<"g","o","l","d","e","n">>, <<"g","r","a","n","d">>,
    <<"g","r","o","o","v","y">>, <<"h","a","s","t","y">>,
    <<"h","i","d","d","e","n">>, <<"h","o","l","l","o","w">>,
    <<"h","u","m","b","l","e">>, <<"h","u","s","h","e","d">>,
    <<"i","c","y">>, <<"i","d","l","e">>,
    <<"i","n","f","i","n","i","t","e">>, <<"i","r","o","n">>,
    <<"j","a","d","e">>, <<"j","a","z","z","y">>,
    <<"j","o","l","l","y">>, <<"k","e","e","n">>,
    <<"k","i","n","e","t","i","c">>, <<"l","a","s","e","r">>,
    <<"l","a","z","y">>, <<"l","i","q","u","i","d">>,
    <<"l","i","t","t","l","e">>, <<"l","o","n","e">>,
    <<"l","o","s","t">>, <<"l","u","c","k","y">>,
    <<"l","u","n","a","r">>, <<"m","a","g","i","c">>,
    <<"m","a","p","l","e">>, <<"m","e","l","l","o","w">>,
    <<"m","i","g","h","t","y">>, <<"m","i","s","t","y">>,
    <<"m","o","l","t","e","n">>, <<"n","e","o","n">>,
    <<"n","i","m","b","l","e">>, <<"n","o","b","l","e">>,
    <<"n","o","v","a">>, <<"o","b","s","i","d","i","a","n">>,
    <<"o","l","i","v","e">>, <<"o","m","b","r","e">>,
    <<"o","r","b","i","t","a","l">>, <<"o","u","t","e","r">>,
    <<"p","a","l","e">>, <<"p","h","a","n","t","o","m">>,
    <<"p","i","x","e","l">>, <<"p","l","a","s","m","a">>,
    <<"p","o","l","a","r">>, <<"p","r","i","s","m">>,
    <<"p","r","o","u","d">>, <<"q","u","a","n","t","u","m">>,
    <<"q","u","i","c","k">>, <<"q","u","i","e","t">>,
    <<"r","a","d","i","c","a","l">>, <<"r","a","p","i","d">>,
    <<"r","e","b","e","l">>, <<"r","o","g","u","e">>,
    <<"r","o","y","a","l">>, <<"r","u","b","y">>,
    <<"r","u","g","g","e","d">>, <<"r","u","s","t","i","c">>,
    <<"s","a","l","t","y">>, <<"s","a","v","a","g","e">>,
    <<"s","c","a","r","l","e","t">>, <<"s","e","c","r","e","t">>,
    <<"s","h","a","d","o","w">>, <<"s","h","a","r","p">>,
    <<"s","h","i","n","y">>, <<"s","i","l","e","n","t">>,
    <<"s","i","l","v","e","r">>, <<"s","l","e","e","k">>,
    <<"s","n","e","a","k","y">>, <<"s","n","o","w","y">>,
    <<"s","o","l","a","r">>, <<"s","o","n","i","c">>,
    <<"s","p","i","c","y">>, <<"s","t","e","e","l">>,
    <<"s","t","e","l","l","a","r">>, <<"s","t","o","r","m","y">>,
    <<"s","u","b","t","l","e">>, <<"s","u","p","e","r">>,
    <<"s","w","i","f","t">>, <<"t","i","d","a","l">>,
    <<"t","i","n","y">>, <<"t","o","a","s","t","y">>,
    <<"t","o","p","a","z">>, <<"t","o","x","i","c">>,
    <<"t","u","r","b","o">>, <<"t","w","i","l","i","g","h","t">>,
    <<"u","l","t","r","a">>, <<"v","e","l","v","e","t">>,
    <<"v","i","v","i","d">>, <<"v","o","i","d">>,
    <<"w","a","n","d","e","r","i","n","g">>, <<"w","i","c","k","e","d">>,
    <<"w","i","l","d">>, <<"w","i","n","t","e","r">>,
    <<"w","i","r","e","d">>, <<"w","i","t","t","y">>,
    <<"z","e","n">>, <<"z","i","p","p","y">>,
    <<"z","o","n","a","l">>
  >>

NOUNS == <<
    <<"a","l","p","a","c","a">>, <<"a","n","c","h","o","r">>,
    <<"a","n","v","i","l">>, <<"a","u","r","o","r","a">>,
    <<"a","v","a","l","a","n","c","h","e">>, <<"b","a","d","g","e","r">>,
    <<"b","a","n","d","i","t">>, <<"b","e","a","c","o","n">>,
    <<"b","e","a","r">>, <<"b","i","s","o","n">>,
    <<"b","l","i","z","z","a","r","d">>, <<"b","o","l","t">>,
    <<"b","r","e","e","z","e">>, <<"b","u","f","f","a","l","o">>,
    <<"c","a","c","t","u","s">>, <<"c","a","n","y","o","n">>,
    <<"c","a","p","t","a","i","n">>, <<"c","a","r","i","b","o","u">>,
    <<"c","a","s","c","a","d","e">>, <<"c","a","s","t","l","e">>,
    <<"c","h","e","e","t","a","h">>, <<"c","i","p","h","e","r">>,
    <<"c","l","i","f","f">>, <<"c","o","b","r","a">>,
    <<"c","o","m","e","t">>, <<"c","o","n","d","o","r">>,
    <<"c","o","r","a","l">>, <<"c","o","y","o","t","e">>,
    <<"c","r","a","n","e">>, <<"c","r","a","t","e","r">>,
    <<"c","r","o","w">>, <<"c","r","y","s","t","a","l">>,
    <<"c","u","r","r","e","n","t">>, <<"d","a","g","g","e","r">>,
    <<"d","a","w","n">>, <<"d","o","l","p","h","i","n">>,
    <<"d","r","a","g","o","n">>, <<"d","r","i","f","t">>,
    <<"e","a","g","l","e">>, <<"e","c","l","i","p","s","e">>,
    <<"e","m","b","e","r">>, <<"f","a","l","c","o","n">>,
    <<"f","e","r","n">>, <<"f","i","r","e","f","l","y">>,
    <<"f","l","a","m","e">>, <<"f","l","a","r","e">>,
    <<"f","o","x">>, <<"f","r","o","s","t">>,
    <<"g","a","l","a","x","y">>, <<"g","a","r","g","o","y","l","e">>,
    <<"g","a","z","e","l","l","e">>, <<"g","l","a","c","i","e","r">>,
    <<"g","l","i","t","c","h">>, <<"g","o","r","i","l","l","a">>,
    <<"g","r","i","f","f","i","n">>, <<"h","a","w","k">>,
    <<"h","o","r","i","z","o","n">>, <<"h","u","s","k","y">>,
    <<"h","y","d","r","a">>, <<"i","c","e","b","e","r","g">>,
    <<"i","g","l","o","o">>, <<"j","a","g","u","a","r">>,
    <<"j","e","l","l","y">>, <<"k","e","s","t","r","e","l">>,
    <<"k","i","t","e">>, <<"k","n","i","g","h","t">>,
    <<"k","r","a","k","e","n">>, <<"l","a","g","o","o","n">>,
    <<"l","a","n","c","e","r">>, <<"l","e","m","u","r">>,
    <<"l","e","o","p","a","r","d">>, <<"l","i","g","h","t","n","i","n","g">>,
    <<"l","i","o","n">>, <<"l","l","a","m","a">>,
    <<"l","y","n","x">>, <<"m","a","m","m","o","t","h">>,
    <<"m","a","n","t","i","s">>, <<"m","a","p","l","e">>,
    <<"m","a","r","l","i","n">>, <<"m","a","v","e","r","i","c","k">>,
    <<"m","e","t","e","o","r">>, <<"m","o","o","s","e">>,
    <<"m","o","t","h">>, <<"m","u","s","t","a","n","g">>,
    <<"n","e","b","u","l","a">>, <<"n","i","n","j","a">>,
    <<"n","o","m","a","d">>, <<"n","o","v","a">>,
    <<"o","b","s","i","d","i","a","n">>, <<"o","c","t","o","p","u","s">>,
    <<"o","n","y","x">>, <<"o","r","c","a">>,
    <<"o","s","p","r","e","y">>, <<"o","t","t","e","r">>,
    <<"o","w","l">>, <<"p","a","n","t","h","e","r">>,
    <<"p","a","r","r","o","t">>, <<"p","e","g","a","s","u","s">>,
    <<"p","e","n","g","u","i","n">>, <<"p","h","o","e","n","i","x">>,
    <<"p","i","l","o","t">>, <<"p","i","n","e">>,
    <<"p","i","r","a","t","e">>, <<"p","i","x","e","l">>,
    <<"p","l","a","n","e","t">>, <<"p","o","r","c","u","p","i","n","e">>,
    <<"p","r","i","s","m">>, <<"p","u","f","f","i","n">>,
    <<"p","u","m","a">>, <<"p","y","t","h","o","n">>,
    <<"q","u","a","r","t","z">>, <<"r","a","v","e","n">>,
    <<"r","e","e","f">>, <<"r","h","i","n","o">>,
    <<"r","i","d","g","e">>, <<"r","o","c","k","e","t">>,
    <<"s","a","g","e">>, <<"s","a","l","m","o","n">>,
    <<"s","a","m","u","r","a","i">>, <<"s","a","p","p","h","i","r","e">>,
    <<"s","c","o","r","p","i","o","n">>, <<"s","e","r","p","e","n","t">>,
    <<"s","h","a","r","k">>, <<"s","p","a","r","r","o","w">>,
    <<"s","p","h","i","n","x">>, <<"s","q","u","i","d">>,
    <<"s","t","a","g">>, <<"s","t","a","r","l","i","n","g">>,
    <<"s","u","m","m","i","t">>, <<"t","h","u","n","d","e","r">>,
    <<"t","i","g","e","r">>, <<"t","i","t","a","n">>,
    <<"t","o","r","n","a","d","o">>, <<"t","o","u","c","a","n">>,
    <<"t","r","i","d","e","n","t">>, <<"t","u","r","t","l","e">>,
    <<"t","y","p","h","o","o","n">>, <<"v","i","p","e","r">>,
    <<"v","o","l","c","a","n","o">>, <<"v","o","y","a","g","e","r">>,
    <<"w","a","l","r","u","s">>, <<"w","a","s","p">>,
    <<"w","h","a","l","e">>, <<"w","i","z","a","r","d">>,
    <<"w","o","l","f">>, <<"w","o","l","v","e","r","i","n","e">>,
    <<"w","o","m","b","a","t">>, <<"w","r","e","n">>,
    <<"y","a","k">>, <<"y","e","t","i">>,
    <<"z","e","b","r","a">>, <<"z","e","n","i","t","h">>,
    <<"z","e","p","h","y","r">>
  >>

VERBS == <<
    <<"b","i","n","d">>, <<"b","l","a","z","e">>,
    <<"b","r","e","a","k">>, <<"b","u","i","l","d">>,
    <<"b","u","r","n">>, <<"c","a","r","v","e">>,
    <<"c","a","s","t">>, <<"c","a","t","c","h">>,
    <<"c","h","a","s","e">>, <<"c","l","i","m","b">>,
    <<"c","r","a","f","t">>, <<"c","r","a","s","h">>,
    <<"c","r","o","s","s">>, <<"c","r","u","s","h">>,
    <<"d","a","n","c","e">>, <<"d","a","s","h">>,
    <<"d","i","v","e">>, <<"d","o","d","g","e">>,
    <<"d","r","e","a","m">>, <<"d","r","i","f","t">>,
    <<"d","r","o","p">>, <<"f","a","d","e">>,
    <<"f","i","n","d">>, <<"f","l","i","n","g">>,
    <<"f","l","o","a","t">>, <<"f","o","r","g","e">>,
    <<"g","a","z","e">>, <<"g","l","i","d","e">>,
    <<"g","r","i","n","d">>, <<"g","u","a","r","d">>,
    <<"h","a","c","k">>, <<"h","a","u","n","t">>,
    <<"h","o","w","l">>, <<"h","u","n","t">>,
    <<"j","u","m","p">>, <<"k","e","e","p">>,
    <<"l","a","u","n","c","h">>, <<"l","e","a","p">>,
    <<"l","u","r","k">>, <<"m","a","r","c","h">>,
    <<"m","i","n","e">>, <<"m","o","r","p","h">>,
    <<"p","u","s","h">>, <<"r","a","c","e">>,
    <<"r","a","i","d">>, <<"r","i","d","e">>,
    <<"r","o","a","m">>, <<"r","u","n">>,
    <<"r","u","s","h">>, <<"s","a","i","l">>,
    <<"s","e","e","k">>, <<"s","h","a","d","e">>,
    <<"s","h","a","p","e">>, <<"s","h","i","f","t">>,
    <<"s","h","r","e","d">>, <<"s","i","n","g">>,
    <<"s","i","n","k">>, <<"s","k","i","p">>,
    <<"s","l","a","s","h">>, <<"s","l","i","d","e">>,
    <<"s","l","i","n","g">>, <<"s","m","a","s","h">>,
    <<"s","n","a","p">>, <<"s","p","a","r","k">>,
    <<"s","p","i","n">>, <<"s","p","r","i","n","t">>,
    <<"s","t","a","l","k">>, <<"s","t","o","m","p">>,
    <<"s","t","o","r","m">>, <<"s","t","r","i","k","e">>,
    <<"s","u","r","f">>, <<"s","u","r","g","e">>,
    <<"s","w","e","e","p">>, <<"s","w","i","n","g">>,
    <<"t","a","m","e">>, <<"t","r","a","c","e">>,
    <<"t","r","a","c","k">>, <<"t","r","a","p">>,
    <<"t","r","e","k">>, <<"v","a","u","l","t">>,
    <<"w","a","l","k">>, <<"w","a","n","d","e","r">>,
    <<"w","a","r","p">>, <<"w","a","t","c","h">>,
    <<"w","e","a","v","e">>, <<"w","h","i","r","l">>,
    <<"w","i","e","l","d">>, <<"z","a","p">>
  >>

PATTERNS == <<
    << <<"c","l","a","s","s","i","c">>,
      <<"{","a","d","j","}","{","n","o","u","n","}","{","n","u","m","}">> >>,
    << <<"d","u","o">>,
      <<"{","a","d","j","}","{","a","d","j","}","{","n","o","u","n","}">> >>,
    << <<"a","g","e","n","t">>,
      <<"{","a","d","j","}","{","n","o","u","n","}">> >>,
    << <<"v","e","r","b","e","r">>,
      <<"{","n","o","u","n","}","{","v","e","r","b","}">> >>,
    << <<"n","u","m","b","e","r","e","d","_","v","e","r","b","e","r">>,
      <<"{","n","o","u","n","}","{","v","e","r","b","}","{","n","u","m","}">> >>,
    << <<"t","h","e">>,
      <<"t","h","e","{","a","d","j","}","{","n","o","u","n","}">> >>
  >>

\* the variant of the weight table in which the pattern "the" has weight 0
PATTERN_WEIGHTS_with_zero_weight == <<
    << <<"c","l","a","s","s","i","c">>, 40>>,
    << <<"a","g","e","n","t">>, 20>>,
    << <<"d","u","o">>, 15>>,
    << <<"v","e","r","b","e","r">>, 15>>,
    << <<"n","u","m","b","e","r","e","d","_","v","e","r","b","e","r">>, 5>>,
    << <<"t","h","e">>, 0>>
  >>


PATTERN_WEIGHTS == <<
    << <<"c","l","a","s","s","i","c">>, 40>>,
    << <<"a","g","e","n","t">>, 20>>,
    << <<"d","u","o">>, 15>>,
    << <<"v","e","r","b","e","r">>, 15>>,
    << <<"n","u","m","b","e","r","e","d","_","v","e","r","b","e","r">>, 5>>,
    << <<"t","h","e">>, 5>>
  >>

\* ----------------------------------------------------------- config.py

\* class CaseStyle(Enum): the five members, by name
CaseStyle == {"PASCAL", "LOWER", "UPPER", "SNAKE", "KEBAB"}

MAX_USERNAME_LENGTH == 20

MAX_NUMBER == 9999

MIN_NUMBER == 0

\* "name in PATTERNS" / PATTERNS.keys()
PatternNames == {PATTERNS[k][1] : k \in 1..Len(PATTERNS)}

\* PATTERNS[name] for a key of the dict
PatternTemplate(name) ==
  PATTERNS[CHOOSE k \in 1..Len(PATTERNS) : PATTERNS[k][1] = name][2]

\* PATTERN_WEIGHTS.keys()
WeightedNames == {PATTERN_WEIGHTS[k][1] : k \in 1..Len(PATTERN_WEIGHTS)}

\* PATTERN_WEIGHTS[name] for a key of the dict
PatternWeight(name) ==
  PATTERN_WEIGHTS[CHOOSE k \in 1..Len(PATTERN_WEIGHTS) : PATTERN_WEIGHTS[k][1] = name][2]

\* ------------------------------------------------------------ core.py

\* Python's None, and a keyword argument the caller did not pass
None == <<"<None>">>

Absent == <<"<absent>">>

\* the variant "pattern is not None" of the truth test
Truthy_unless_None(s) == s # None

\* truth value of "pattern": None and the empty str are false
Truthy(s) == s # None /\ s # <<>>

\* the for-loop bound of generate_username: range(50)
RetryLimit == 50

\* max_attempts = count * 10 in generate_batch
AttemptFactor == 10

\* the placeholder names of the regex \{(adj|noun|verb|num)\}, in its order
PlaceholderNames ==
  << <<"a","d","j">>, <<"n","o","u","n">>, <<"v","e","r","b">>, <<"n","u","m">> >>

\* the text "{name}" the regex matches for one alternative
Braced(name) == <<"{">> \o name \o <<"}">>

\* the variant r"\{(adj|noun|verb)\}" of the regex, which does not know the
\* numeric placeholder
re_search_without_num(remainder) ==
  LET known == SubSeq(PlaceholderNames, 1, 3)
      hits == {at \in 0..Len(remainder) :
                 \E p \in 1..Len(known) : OccursAt(remainder, at, Braced(known[p]))}
  IN  IF hits = {} THEN [found |-> FALSE, start |-> 0, end |-> 0, group |-> <<>>]
      ELSE LET at == CHOOSE a \in hits : \A b \in hits : a <= b
               p  == CHOOSE q \in 1..Len(known) : OccursAt(remainder, at, Braced(known[q]))
           IN  [found |-> TRUE, start |-> at,
                end |-> at + Len(known[p]) + 2,
                group |-> known[p]]


\* re.search(r"\{(adj|noun|verb|num)\}", remainder): the leftmost match, as
\* [found, start, end, group]; start/end are 0-based like match.start()/end()
re_search(remainder) ==
  LET hits == {at \in 0..Len(remainder) :
                 \E p \in 1..Len(PlaceholderNames) :
                     OccursAt(remainder, at, Braced(PlaceholderNames[p]))}
  IN  IF hits = {} THEN [found |-> FALSE, start |-> 0, end |-> 0, group |-> <<>>]
      ELSE LET at == CHOOSE a \in hits : \A b \in hits : a <= b
               p  == CHOOSE q \in 1..Len(PlaceholderNames) :
                        OccursAt(remainder, at, Braced(PlaceholderNames[q]))
           IN  [found |-> TRUE, start |-> at,
                end |-> at + Len(PlaceholderNames[p]) + 2,
                group |-> PlaceholderNames[p]]

\* the variant of _verbify whose doubling rule has no exception for a final
\* "w" or "y": verb[-1] not in "aeiou"
_verbify_doubles_w_and_y(verb) ==
  IF endswith(verb, <<"e">>) THEN verb \o <<"r">>
  ELSE IF /\ Len(verb) >= 3
          /\ ~CharIn(CharAt(verb, -1), <<"a","e","i","o","u">>)
          /\ CharIn(CharAt(verb, -2), <<"a","e","i","o","u">>)
          /\ ~CharIn(CharAt(verb, -3), <<"a","e","i","o","u">>)
       THEN verb \o <<CharAt(verb, -1)>> \o <<"e","r">>
  ELSE verb \o <<"e","r">>

\* _verbify(verb): base verb to agent noun
_verbify(verb) ==
  IF endswith(verb, <<"e">>) THEN verb \o <<"r">>
  ELSE IF /\ Len(verb) >= 3
          /\ ~CharIn(CharAt(verb, -1), <<"a","e","i","o","u","w","y">>)
          /\ CharIn(CharAt(verb, -2), <<"a","e","i","o","u">>)
          /\ ~CharIn(CharAt(verb, -3), <<"a","e","i","o","u">>)
       THEN verb \o <<CharAt(verb, -1)>> \o <<"e","r">>
  ELSE verb \o <<"e","r">>

\* the variant of _apply_style whose SNAKE and KEBAB branches join with ""
_apply_style_without_separator(tokens, style) ==
  LET lowered == [k \in 1..Len(tokens) |-> lower(tokens[k])]
  IN  CASE style = "PASCAL" ->
             join(<<>>, [k \in 1..Len(lowered) |->
                           IF isalpha(lowered[k]) THEN capitalize(lowered[k])
                           ELSE lowered[k]])
        [] style = "LOWER" -> join(<<>>, lowered)
        [] style = "UPPER" -> upper(join(<<>>, lowered))
        [] style = "SNAKE" -> join(<<>>, lowered)
        [] style = "KEBAB" -> join(<<>>, lowered)
        [] OTHER -> None

\* _apply_style(tokens, style)
_apply_style(tokens, style) ==
  LET lowered == [k \in 1..Len(tokens) |-> lower(tokens[k])]
  IN  CASE style = "PASCAL" ->
             join(<<>>, [k \in 1..Len(lowered) |->
                           IF isalpha(lowered[k]) THEN capitalize(lowered[k])
                           ELSE lowered[k]])
        [] style = "LOWER" -> join(<<>>, lowered)
        [] style = "UPPER" -> upper(join(<<>>, lowered))
        [] style = "SNAKE" -> join(<<"_">>, lowered)
        [] style = "KEBAB" -> join(<<"-">>, lowered)
        [] OTHER -> None

\* the token one placeholder becomes, given the value the random source drew:
\* an index into the word bank for random.choice, the int for random.randint
PlaceholderToken(placeholder, draw) ==
  CASE placeholder = <<"a","d","j">> -> ADJECTIVES[draw]
    [] placeholder = <<"n","o","u","n">> -> NOUNS[draw]
    [] placeholder = <<"v","e","r","b">> -> _verbify(VERBS[draw])
    [] placeholder = <<"n","u","m">> -> str(draw)

\* the variant "if match.start() >= 0:" of the loop, which also keeps the
\* empty text before a placeholder that starts the remainder
RECURSIVE FillLoop_keeps_empty_literal(_, _, _)
FillLoop_keeps_empty_literal(remainder, tokens, draws) ==
  IF remainder = <<>> THEN tokens
  ELSE LET match == re_search(remainder)
       IN  IF ~match.found THEN tokens \o <<remainder>>
           ELSE LET literal == tokens \o <<SliceTo(remainder, match.start)>>
                IN  FillLoop_keeps_empty_literal(
                      SliceFrom(remainder, match.end),
                      literal \o <<PlaceholderToken(match.group, Head(draws))>>,
                      Tail(draws))


\* the while-loop of _fill_template, from one loop head to the return
RECURSIVE FillLoop(_, _, _)
FillLoop(remainder, tokens, draws) ==
  IF remainder = <<>> THEN tokens
  ELSE LET match == re_search(remainder)
       IN  IF ~match.found THEN tokens \o <<remainder>>
           ELSE LET literal == IF match.start > 0
                               THEN tokens \o <<SliceTo(remainder, match.start)>>
                               ELSE tokens
                IN  FillLoop(SliceFrom(remainder, match.end),
                             literal \o <<PlaceholderToken(match.group, Head(draws))>>,
                             Tail(draws))

\* _fill_template(template), with the values of its random draws in call order
_fill_template(template, draws) == FillLoop(template, <<>>, draws)

\* the placeholders of a template in scan order: one random draw each
RECURSIVE PlaceholdersOf(_)
PlaceholdersOf(remainder) ==
  LET match == re_search(remainder)
  IN  IF ~match.found THEN <<>>
      ELSE <<match.group>> \o PlaceholdersOf(SliceFrom(remainder, match.end))

\* values inside the range that random.randint(MIN_NUMBER, MAX_NUMBER) can return
NumberSamples == <<42, 7, 100, 999, 1000>>

\* the values the random source can hand out for one placeholder
DrawsFor(placeholder) ==
  CASE placeholder = <<"a","d","j">> -> 1..Min(MaxWordIndex, Len(ADJECTIVES))
    [] placeholder = <<"n","o","u","n">> -> 1..Min(MaxWordIndex, Len(NOUNS))
    [] placeholder = <<"v","e","r","b">> -> 1..Min(MaxWordIndex, Len(VERBS))
    [] placeholder = <<"n","u","m">> ->
         ({MIN_NUMBER, MAX_NUMBER}
            \cup {NumberSamples[k] : k \in 1..Min(MaxNumberSamples, Len(NumberSamples))})
           \cap (MIN_NUMBER..MAX_NUMBER)

\* every sequence of draws one pass over the placeholders can consume
RECURSIVE DrawSeqs(_)
DrawSeqs(placeholders) ==
  IF placeholders = <<>> THEN {<<>>}
  ELSE {<<d>> \o rest : d \in DrawsFor(Head(placeholders)),
                        rest \in DrawSeqs(Tail(placeholders))}

\* _pick_weighted_pattern(): random.choices returns a name of positive weight
_pick_weighted_pattern ==
  {name \in WeightedNames : PatternWeight(name) > 0}

\* "pattern or _pick_weighted_pattern()": the names one attempt can select
SelectedPatterns(pattern) ==
  IF Truthy(pattern) THEN {pattern} ELSE _pick_weighted_pattern

\* the body of one retry-loop iteration up to the length test: the candidate
\* for the selected pattern and the draws of its template fill
Candidate(selected_pattern, draws, style) ==
  _apply_style(_fill_template(PatternTemplate(selected_pattern), draws), style)

\* every candidate one iteration can produce once the pattern is selected
CandidatesOf(selected_pattern, style) ==
  {Candidate(selected_pattern, draws, style) :
     draws \in DrawSeqs(PlaceholdersOf(PatternTemplate(selected_pattern)))}

\* CandidatesOf, computed once for every pattern and style
CandidateTable ==
  [request \in PatternNames \X CaseStyle |-> CandidatesOf(request[1], request[2])]

\* every candidate one iteration can produce for a request
Candidates(pattern, style) ==
  UNION {CandidateTable[<<sel, style>>] : sel \in SelectedPatterns(pattern)}

\* f"Unknown pattern '{pattern}'. Valid patterns: {valid}"
UnknownPatternMessage(pattern) ==
  LET valid == join(<<",", " ">>, sorted(PatternNames))
  IN  <<"U","n","k","n","o","w","n"," ","p","a","t","t","e","r","n"," ","'">>
        \o pattern
        \o <<"'","."," ","V","a","l","i","d"," ","p","a","t","t","e","r","n","s",":"," ">>
        \o valid

\* the variant "if pattern:" of the pattern check, which turns every named
\* pattern away
RejectsPattern_every_name(pattern) == Truthy(pattern)

\* "if pattern and pattern not in PATTERNS": the call raises ValueError
RejectsPattern(pattern) == Truthy(pattern) /\ pattern \notin PatternNames

\* the variant "if len(username) < max_length" of the length test
Fits_strictly(text, max_length) == Len(text) < max_length

\* "if len(username) <= max_length"
Fits(text, max_length) == Len(text) <= max_length

\* the retry loop of generate_username from the head of iteration k, lifted to
\* the set of values the draws can give: lasts holds the values "username" can
\* have after k iterations that all failed the length test
RECURSIVE RetryLoop(_, _, _, _)
RetryLoop(k, lasts, cands, max_length) ==
  IF k = RetryLimit THEN {SliceTo(u, max_length) : u \in lasts}
  ELSE LET fits == {u \in cands : Fits(u, max_length)}
           over == cands \ fits
       IN  fits \cup (IF over = {} THEN {} ELSE RetryLoop(k + 1, over, cands, max_length))

\* generate_username(pattern=, style=, max_length=) as the caller sees it: the
\* set of outcomes of one call, [raised, value] with value the returned str or
\* the message of the ValueError
generate_username(pattern, style, max_length) ==
  IF RejectsPattern(pattern)
  THEN {[raised |-> TRUE, value |-> UnknownPatternMessage(pattern)]}
  ELSE {[raised |-> FALSE, value |-> u] :
          u \in RetryLoop(0, {}, Candidates(pattern, style), max_length)}

\* ------------------------------------------------------------- call inputs

\* a name that is no key of PATTERNS
Nonexistent == <<"n","o","n","e","x","i","s","t","e","n","t">>

\* <<pattern, style, max_length>> of the generate_username calls: every named
\* pattern (valid or not) and no pattern with every style at the default
\* max_length, the empty pattern at the defaults, every named pattern and
\* style at max_length 1, and PascalCase at a zero, a minimal and a middle
\* max_length (and a negative one for the named patterns)
UsernameRequests ==
  ((PatternNames \cup {None, Nonexistent}) \X CaseStyle \X {MAX_USERNAME_LENGTH})
    \cup ({<<>>} \X {"PASCAL"} \X {MAX_USERNAME_LENGTH})
    \cup ((PatternNames \cup {Nonexistent}) \X CaseStyle \X {1})
    \cup ((PatternNames \cup {None, Nonexistent}) \X {"PASCAL"} \X {0, 1, 14})
    \cup ((PatternNames \cup {Nonexistent}) \X {"PASCAL"} \X {-2})

\* include= of a call: not passed, an alphabetic word, a numeric literal
IncludeInputs == {Absent, <<"p","h","o","e","n","i","x">>, <<"4","2">>}

\* count of a generate_batch call
CountInputs == -1..MaxCount

\* <<count, pattern, style, unique, max_length>> of the generate_batch calls:
\* generate_batch(count) with every other argument at its default, calls
\* that name a pattern, and a unique batch of three of one pattern
BatchRequests ==
  ({-1, 0, 1, 2} \X {None} \X {"PASCAL"} \X {TRUE} \X {MAX_USERNAME_LENGTH})
    \cup (CountInputs \X {<<"c","l","a","s","s","i","c">>, <<"d","u","o">>, Nonexistent}
            \X {"PASCAL", "SNAKE"} \X BOOLEAN \X {1, MAX_USERNAME_LENGTH})
    \cup ({3} \X {<<"c","l","a","s","s","i","c">>} \X {"PASCAL"} \X {TRUE}
            \X {MAX_USERNAME_LENGTH})

\* the outcomes of the Generator calls a batch can make, computed once
GeneratorOutcomes ==
  [request \in {<<r[2], r[3], r[5]>> : r \in BatchRequests} |->
     generate_username(request[1], request[2], request[3])]

\* ------------------------------------------------------------------- state

VARIABLES
  pc,         \* per caller: "idle", "retry_loop", "comprehension", "batch_loop", "done"
  op,         \* per caller: the function called, "generate_username" or "generate_batch"
  args,       \* per caller: the arguments of the call
  attempt,    \* generate_username: iterations of "for _ in range(50)" completed
  username,   \* generate_username: the local "username"
  seen,       \* generate_batch: the local set "seen"
  results,    \* generate_batch: the local list "results" (the list under
              \* construction when unique=False)
  iter,       \* generate_batch: iterations of its loop completed, one
              \* generate_username call each
  produced,   \* generate_batch: the set of values its generate_username calls
              \* have returned (history, kept until the client takes the outcome)
  outcome,    \* per caller: "none", "returned", "ValueError" or "TypeError"
  retval,     \* the str a generate_username call returned
  retlist,    \* the list a generate_batch call returned
  errmsg,     \* the message of the exception raised
  memo,       \* auxiliary: CandidateTable and GeneratorOutcomes, evaluated once
              \* when the module is imported and looked up by every step
  config      \* the module-level objects of config.py and wordlists.py (dicts
              \* and lists, which Python lets any code change in place)

vars == <<pc, op, args, attempt, username, seen, results, iter, produced,
          outcome, retval, retlist, errmsg, memo, config>>

locals == <<attempt, username, seen, results, iter>>

outputs == <<outcome, retval, retlist, errmsg>>

Callers == DOMAIN pc

NoArgs ==
  [pattern |-> None, style |-> "PASCAL", max_length |-> MAX_USERNAME_LENGTH,
   include |-> Absent, count |-> 0, unique |-> TRUE]

\* PATTERNS, PATTERN_WEIGHTS and the word tuples as the import of the package
\* leaves them; the operators above read these values
ImportedConfig ==
  [PATTERNS |-> PATTERNS, PATTERN_WEIGHTS |-> PATTERN_WEIGHTS,
   ADJECTIVES |-> ADJECTIVES, NOUNS |-> NOUNS, VERBS |-> VERBS]

\* what one attempt and one Generator call can yield, for every request
MemoTables == [candidates |-> CandidateTable, outcomes |-> GeneratorOutcomes]

InitFor(callers) ==
  /\ pc = [c \in callers |-> "idle"]
  /\ op = [c \in callers |-> "none"]
  /\ args = [c \in callers |-> NoArgs]
  /\ attempt = [c \in callers |-> 0]
  /\ username = [c \in callers |-> <<>>]
  /\ seen = [c \in callers |-> {}]
  /\ results = [c \in callers |-> <<>>]
  /\ iter = [c \in callers |-> 0]
  /\ produced = [c \in callers |-> {}]
  /\ outcome = [c \in callers |-> "none"]
  /\ retval = [c \in callers |-> <<>>]
  /\ retlist = [c \in callers |-> <<>>]
  /\ errmsg = [c \in callers |-> <<>>]
  /\ memo = MemoTables
  /\ config = ImportedConfig

Init == InitFor({1})

\* the binding of keyword arguments: neither function has a parameter
\* "include", so passing it raises TypeError before the body runs
UnexpectedKeyword(include) == include # Absent

\* "<function>() got an unexpected keyword argument 'include'"
UnexpectedKeywordMessage(function) ==
  function
    \o <<"(",")"," ","g","o","t"," ","a","n"," ","u","n","e","x","p","e","c","t","e","d"," ","k","e","y","w","o","r","d"," ">>
    \o <<"a","r","g","u","m","e","n","t"," ","'","i","n","c","l","u","d","e","'">>

\* the variant in which the locals are module-level variables shared by all
\* callers: the end of one call clears them for every caller
PopFrame_every_caller(c) ==
  /\ pc' = [pc EXCEPT ![c] = "done"]
  /\ attempt' = [d \in DOMAIN attempt |-> 0]
  /\ username' = [d \in DOMAIN username |-> <<>>]
  /\ seen' = [d \in DOMAIN seen |-> {}]
  /\ results' = [d \in DOMAIN results |-> <<>>]
  /\ iter' = [d \in DOMAIN iter |-> 0]


\* the call is over: its frame and the locals in it are gone
PopFrame(c) ==
  /\ pc' = [pc EXCEPT ![c] = "done"]
  /\ attempt' = [attempt EXCEPT ![c] = 0]
  /\ username' = [username EXCEPT ![c] = <<>>]
  /\ seen' = [seen EXCEPT ![c] = {}]
  /\ results' = [results EXCEPT ![c] = <<>>]
  /\ iter' = [iter EXCEPT ![c] = 0]

\* the exception leaves the call
Raise(c, kind, message) ==
  /\ PopFrame(c)
  /\ outcome' = [outcome EXCEPT ![c] = kind]
  /\ errmsg' = [errmsg EXCEPT ![c] = message]
  /\ UNCHANGED <<retval, retlist>>

\* generate_username: "return <value>"
ReturnStr(c, value) ==
  /\ PopFrame(c)
  /\ outcome' = [outcome EXCEPT ![c] = "returned"]
  /\ retval' = [retval EXCEPT ![c] = value]
  /\ UNCHANGED <<retlist, errmsg>>

\* generate_batch: "return <list>"
ReturnList(c, list) ==
  /\ PopFrame(c)
  /\ outcome' = [outcome EXCEPT ![c] = "returned"]
  /\ retlist' = [retlist EXCEPT ![c] = list]
  /\ UNCHANGED <<retval, errmsg>>

\* generate_username, called by the client

\* the call: argument binding, then the pattern check of lines 49-51
GenerateUsernameCall(c, pattern, style, max_length, include) ==
  /\ pc[c] = "idle"
  /\ op' = [op EXCEPT ![c] = "generate_username"]
  /\ args' = [args EXCEPT ![c] = [NoArgs EXCEPT !.pattern = pattern, !.style = style,
                                    !.max_length = max_length, !.include = include]]
  /\ IF UnexpectedKeyword(include)
     THEN Raise(c, "TypeError",
                UnexpectedKeywordMessage(<<"g","e","n","e","r","a","t","e","_","u","s","e","r","n","a","m","e">>))
     ELSE IF RejectsPattern(pattern)
     THEN Raise(c, "ValueError", UnknownPatternMessage(pattern))
     ELSE /\ pc' = [pc EXCEPT ![c] = "retry_loop"]
          /\ UNCHANGED <<locals, outputs>>
  /\ UNCHANGED <<produced, memo, config>>

\* the variant of the attempt that takes the word out of the list it draws
\* from ("ADJECTIVES.pop(0)" in place of "random.choice(ADJECTIVES)")
Attempt_consumes_adjective(c) ==
  /\ pc[c] = "retry_loop"
  /\ attempt[c] < RetryLimit
  /\ \E selected_pattern \in SelectedPatterns(args[c].pattern) :
       \E candidate \in memo.candidates[<<selected_pattern, args[c].style>>] :
         IF Fits(candidate, args[c].max_length)
         THEN ReturnStr(c, candidate)
         ELSE /\ username' = [username EXCEPT ![c] = candidate]
              /\ attempt' = [attempt EXCEPT ![c] = @ + 1]
              /\ UNCHANGED <<pc, seen, results, iter, outputs>>
  /\ config' = [config EXCEPT !.ADJECTIVES = Tail(@)]
  /\ UNCHANGED <<op, args, produced, memo>>

\* one iteration of the retry loop: pick, fill, style, length test
Attempt(c) ==
  /\ pc[c] = "retry_loop"
  /\ attempt[c] < RetryLimit
  /\ \E selected_pattern \in SelectedPatterns(args[c].pattern) :
       \E candidate \in memo.candidates[<<selected_pattern, args[c].style>>] :
         IF Fits(candidate, args[c].max_length)
         THEN ReturnStr(c, candidate)
         ELSE /\ username' = [username EXCEPT ![c] = candidate]
              /\ attempt' = [attempt EXCEPT ![c] = @ + 1]
              /\ UNCHANGED <<pc, seen, results, iter, outputs>>
  /\ UNCHANGED <<op, args, produced, memo, config>>

\* the variant of the fallback that starts the retry loop again when no
\* attempt fitted ("while True" around the for-loop)
Fallback_restarts(c) ==
  /\ pc[c] = "retry_loop"
  /\ attempt[c] = RetryLimit
  /\ attempt' = [attempt EXCEPT ![c] = 0]
  /\ UNCHANGED <<pc, username, seen, results, iter, outputs>>
  /\ UNCHANGED <<op, args, produced, memo, config>>

\* the variant of the fallback that gives up with an error when no attempt
\* fitted
Fallback_raises(c) ==
  /\ pc[c] = "retry_loop"
  /\ attempt[c] = RetryLimit
  /\ Raise(c, "ValueError", <<>>)
  /\ UNCHANGED <<op, args, produced, memo, config>>

\* the variant "return username" of the fallback, which does not truncate
Fallback_untruncated(c) ==
  /\ pc[c] = "retry_loop"
  /\ attempt[c] = RetryLimit
  /\ ReturnStr(c, username[c])
  /\ UNCHANGED <<op, args, produced, memo, config>>

\* the loop ran out: "return username[:max_length]"
Fallback(c) ==
  /\ pc[c] = "retry_loop"
  /\ attempt[c] = RetryLimit
  /\ ReturnStr(c, SliceTo(username[c], args[c].max_length))
  /\ UNCHANGED <<op, args, produced, memo, config>>

\* generate_batch, called by the client

\* the variant "max_attempts = count * 10 + 1" of the budget
max_attempts_one_more(count) == count * AttemptFactor + 1

\* max_attempts = count * 10
max_attempts(count) == count * AttemptFactor

\* the variant "if len(results) >= count - 1: break" of the break test
EnoughResults_one_short(list, count) == Len(list) >= count - 1

\* "if len(results) >= count: break"
EnoughResults(list, count) == Len(list) >= count

\* the variant "if True:" of the membership test, which lets every name in
NotSeen_always(name, seen_set) == TRUE

\* "if username not in seen"
NotSeen(name, seen_set) == name \notin seen_set

\* the variant list.insert(0, name) of the append
ListAppend_at_front(list, name) == <<name>> \o list

\* list.append(name)
ListAppend(list, name) == Append(list, name)

\* the variant of the unique loop without "if len(results) >= count: break"
LoopGoesOn_without_break(list, done_iterations, count) ==
  done_iterations < max_attempts(count)

\* the head of "for _ in range(max_attempts)" with the break test under it:
\* the unique loop goes on to another generate_username call
LoopGoesOn(list, done_iterations, count) ==
  done_iterations < max_attempts(count) /\ ~EnoughResults(list, count)

\* the variant "for _ in range(count + 1)" of the comprehension
ComprehensionGoesOn_inclusive(done_iterations, count) == done_iterations <= count

\* the head of the comprehension's "for _ in range(count)"
ComprehensionGoesOn(done_iterations, count) == done_iterations < count

\* the variant of the call that checks the pattern name itself, before the
\* branch on "unique" ("if pattern and pattern not in PATTERNS: raise ...")
GenerateBatchCall_checks_pattern(c, count, pattern, style, unique, max_length, include) ==
  /\ pc[c] = "idle"
  /\ op' = [op EXCEPT ![c] = "generate_batch"]
  /\ args' = [args EXCEPT ![c] = [pattern |-> pattern, style |-> style,
                                    max_length |-> max_length, include |-> include,
                                    count |-> count, unique |-> unique]]
  /\ IF UnexpectedKeyword(include)
     THEN Raise(c, "TypeError",
                UnexpectedKeywordMessage(<<"g","e","n","e","r","a","t","e","_","b","a","t","c","h">>))
     ELSE IF RejectsPattern(pattern)
     THEN Raise(c, "ValueError", UnknownPatternMessage(pattern))
     ELSE IF ~unique
     THEN IF ComprehensionGoesOn(0, count)
          THEN /\ pc' = [pc EXCEPT ![c] = "comprehension"]
               /\ UNCHANGED <<locals, outputs>>
          ELSE ReturnList(c, <<>>)
     ELSE IF LoopGoesOn(<<>>, 0, count)
          THEN /\ pc' = [pc EXCEPT ![c] = "batch_loop"]
               /\ UNCHANGED <<locals, outputs>>
          ELSE ReturnList(c, <<>>)
  /\ UNCHANGED <<produced, memo, config>>


\* the call: argument binding, the branch on "unique", the set-up of seen
\* and results, and the first loop head (an empty range returns at once)
GenerateBatchCall(c, count, pattern, style, unique, max_length, include) ==
  /\ pc[c] = "idle"
  /\ op' = [op EXCEPT ![c] = "generate_batch"]
  /\ args' = [args EXCEPT ![c] = [pattern |-> pattern, style |-> style,
                                    max_length |-> max_length, include |-> include,
                                    count |-> count, unique |-> unique]]
  /\ IF UnexpectedKeyword(include)
     THEN Raise(c, "TypeError",
                UnexpectedKeywordMessage(<<"g","e","n","e","r","a","t","e","_","b","a","t","c","h">>))
     ELSE IF ~unique
     THEN IF ComprehensionGoesOn(0, count)
          THEN /\ pc' = [pc EXCEPT ![c] = "comprehension"]
               /\ UNCHANGED <<locals, outputs>>
          ELSE ReturnList(c, <<>>)
     ELSE IF LoopGoesOn(<<>>, 0, count)
          THEN /\ pc' = [pc EXCEPT ![c] = "batch_loop"]
               /\ UNCHANGED <<locals, outputs>>
          ELSE ReturnList(c, <<>>)
  /\ UNCHANGED <<produced, memo, config>>

\* the outcomes of "generate_username(pattern=pattern, style=style,
\* max_length=max_length)" as generate_batch calls it
GeneratorCall(c) ==
  memo.outcomes[<<args[c].pattern, args[c].style, args[c].max_length>>]

\* unique=False: one element of the list comprehension over range(count),
\* up to the next loop head; an exception of the generate_username call
\* passes through, and the list is returned when the range is used up
ComprehensionStep(c) ==
  /\ pc[c] = "comprehension"
  /\ \E call \in GeneratorCall(c) :
       IF call.raised
       THEN /\ Raise(c, "ValueError", call.value)
            /\ UNCHANGED <<produced, memo, config>>
       ELSE /\ produced' = [produced EXCEPT ![c] = @ \cup {call.value}]
            /\ IF ComprehensionGoesOn(iter[c] + 1, args[c].count)
               THEN /\ results' = [results EXCEPT ![c] = ListAppend(@, call.value)]
                    /\ iter' = [iter EXCEPT ![c] = @ + 1]
                    /\ UNCHANGED <<pc, attempt, username, seen, outputs>>
               ELSE ReturnList(c, ListAppend(results[c], call.value))
  /\ UNCHANGED <<op, args, memo, config>>

\* the variant of the dedup that moves a name produced again to the end of
\* the list: "else: results.remove(username); results.append(username)"
Dedup_moves_repeat_to_end(seen_set, list, name) ==
  IF NotSeen(name, seen_set)
  THEN <<seen_set \cup {name}, ListAppend(list, name)>>
  ELSE LET kept == SelectSeq(list, LAMBDA other : other # name)
       IN  <<seen_set, ListAppend(kept, name)>>

\* the dedup of one generated name: <<seen, results>> after
\* "if username not in seen: seen.add(username); results.append(username)"
Dedup(seen_set, list, name) ==
  IF NotSeen(name, seen_set)
  THEN <<seen_set \cup {name}, ListAppend(list, name)>>
  ELSE <<seen_set, list>>

\* unique=True: one iteration of "for _ in range(max_attempts)" from the
\* generate_username call to the next loop head: the dedup of the value, then
\* "return results" when the range is used up or the break is taken
BatchLoopStep(c) ==
  /\ pc[c] = "batch_loop"
  /\ \E call \in GeneratorCall(c) :
       IF call.raised
       THEN /\ Raise(c, "ValueError", call.value)
            /\ UNCHANGED <<produced, memo, config>>
       ELSE LET after == Dedup(seen[c], results[c], call.value)
            IN  /\ produced' = [produced EXCEPT ![c] = @ \cup {call.value}]
                /\ IF LoopGoesOn(after[2], iter[c] + 1, args[c].count)
                   THEN /\ seen' = [seen EXCEPT ![c] = after[1]]
                        /\ results' = [results EXCEPT ![c] = after[2]]
                        /\ iter' = [iter EXCEPT ![c] = @ + 1]
                        /\ UNCHANGED <<pc, attempt, username, outputs>>
                   ELSE ReturnList(c, after[2])
  /\ UNCHANGED <<op, args, memo, config>>

\* the client takes the outcome of the call
Finish(c) ==
  /\ pc[c] = "done"
  /\ pc' = [pc EXCEPT ![c] = "idle"]
  /\ op' = [op EXCEPT ![c] = "none"]
  /\ args' = [args EXCEPT ![c] = NoArgs]
  /\ produced' = [produced EXCEPT ![c] = {}]
  /\ outcome' = [outcome EXCEPT ![c] = "none"]
  /\ retval' = [retval EXCEPT ![c] = <<>>]
  /\ retlist' = [retlist EXCEPT ![c] = <<>>]
  /\ errmsg' = [errmsg EXCEPT ![c] = <<>>]
  /\ UNCHANGED <<locals, memo, config>>

Next ==
  \/ \E c \in Callers, request \in UsernameRequests, include \in IncludeInputs :
       GenerateUsernameCall(c, request[1], request[2], request[3], include)
  \/ \E c \in Callers : Attempt(c)
  \/ \E c \in Callers : Fallback(c)
  \/ \E c \in Callers, request \in BatchRequests, include \in IncludeInputs :
       GenerateBatchCall(c, request[1], request[2], request[3], request[4],
                         request[5], include)
  \/ \E c \in Callers : ComprehensionStep(c)
  \/ \E c \in Callers : BatchLoopStep(c)
  \/ \E c \in Callers : Finish(c)

Spec == Init /\ [][Next]_vars

\* ------------------------------------------- calls that are kept running

\* the generate_username calls followed to their end: PascalCase with no
\* pattern at the default max_length, and with one named pattern and an
\* unknown name at a max_length nothing fits (0), one that cuts every
\* candidate (1) and the default
FairUsernameRequests ==
  {request \in UsernameRequests :
     /\ request[2] = "PASCAL"
     /\ \/ request[1] = None /\ request[3] = MAX_USERNAME_LENGTH
        \/ /\ request[1] \in {<<"a","g","e","n","t">>, Nonexistent}
           /\ request[3] \in {0, 1, MAX_USERNAME_LENGTH}}

\* the generate_batch calls followed to their end: every count, unique or
\* not, of one named pattern and of an unknown name at max_length 1, where
\* the names run out before a unique batch is full
FairBatchRequests ==
  {request \in BatchRequests :
     /\ request[2] \in {<<"d","u","o">>, Nonexistent}
     /\ request[3] = "PASCAL"
     /\ request[5] = 1}

FairNext ==
  \/ \E c \in Callers, request \in FairUsernameRequests, include \in IncludeInputs :
       GenerateUsernameCall(c, request[1], request[2], request[3], include)
  \/ \E c \in Callers : Attempt(c)
  \/ \E c \in Callers : Fallback(c)
  \/ \E c \in Callers, request \in FairBatchRequests, include \in IncludeInputs :
       GenerateBatchCall(c, request[1], request[2], request[3], request[4],
                         request[5], include)
  \/ \E c \in Callers : ComprehensionStep(c)
  \/ \E c \in Callers : BatchLoopStep(c)
  \/ \E c \in Callers : Finish(c)

\* the interpreter keeps executing a call it has started: an iteration of a
\* loop that can run does run (no cancellation, no timeout, nothing blocks)
CallsKeepRunning ==
  \A c \in {1} :
    /\ WF_vars(Attempt(c))
    /\ WF_vars(Fallback(c))
    /\ WF_vars(ComprehensionStep(c))
    /\ WF_vars(BatchLoopStep(c))

\* generate_username and generate_batch, with every started call kept running
FairSpec == Init /\ [][FairNext]_vars /\ CallsKeepRunning

\* ------------------------------------------------- two calls interleaved

\* the generate_username calls of two concurrent callers: one named pattern
\* in PascalCase, at a max_length nothing fits and at the default
ConcurrentUsernameRequests ==
  {request \in UsernameRequests :
     /\ request[1] = <<"a","g","e","n","t">>
     /\ request[2] = "PASCAL"
     /\ request[3] \in {0, MAX_USERNAME_LENGTH}}

\* the generate_batch calls of two concurrent callers: one or two names of
\* one pattern at max_length 1, unique or not
ConcurrentBatchRequests ==
  {request \in BatchRequests :
     /\ request[1] \in {1, 2}
     /\ request[2] = <<"d","u","o">>
     /\ request[3] = "PASCAL"
     /\ request[5] = 1}

\* two callers (threads), no call in progress
ConcurrentInit == InitFor({1, 2})

\* a step of either caller; the steps of the two interleave in any order, and
\* a draw of the random source the callers share is any value of its range
ConcurrentNext ==
  \/ \E c \in Callers, request \in ConcurrentUsernameRequests :
       GenerateUsernameCall(c, request[1], request[2], request[3], Absent)
  \/ \E c \in Callers : Attempt(c)
  \/ \E c \in Callers : Fallback(c)
  \/ \E c \in Callers, request \in ConcurrentBatchRequests :
       GenerateBatchCall(c, request[1], request[2], request[3], request[4],
                         request[5], Absent)
  \/ \E c \in Callers : ComprehensionStep(c)
  \/ \E c \in Callers : BatchLoopStep(c)
  \/ \E c \in Callers : Finish(c)

ConcurrentSpec == ConcurrentInit /\ [][ConcurrentNext]_vars


\* --------------------- _verbify, _apply_style and _fill_template, called
\* --------------------- directly (as tests/test_core.py does for the first two)

\* letters for the verbs tried: a vowel that is "e", another vowel, a
\* consonant, and the two letters "w" and "y" that are never doubled
VerbLetters == <<"e", "u", "n", "w", "y">>

\* every word of exactly n letters of VerbLetters
RECURSIVE WordsOfLen(_)
WordsOfLen(n) ==
  IF n = 0 THEN {<<>>}
  ELSE {<<VerbLetters[k]>> \o rest : k \in 1..Len(VerbLetters), rest \in WordsOfLen(n - 1)}

\* the verbs _verbify is called with: the bank, the verbs of TestVerbify, and
\* every word of VerbLetters up to MaxVerbLen letters
VerbInputs ==
  {VERBS[k] : k \in 1..Len(VERBS)}
    \cup {<<"g","a","z","e">>, <<"b","l","a","z","e">>, <<"r","u","n">>,
          <<"s","p","i","n">>, <<"j","u","m","p">>, <<"h","u","n","t">>}
    \cup UNION {WordsOfLen(n) : n \in 1..MaxVerbLen}

\* tokens _apply_style is called with: words in lower, mixed and upper case
\* and a number
TokenPool ==
  << <<"b","r","a","v","e">>, <<"F","a","l","c","o","n">>, <<"4","2">>, <<"T","H","E">> >>

\* every list of exactly n tokens of TokenPool
RECURSIVE TokenListsOfLen(_)
TokenListsOfLen(n) ==
  IF n = 0 THEN {<<>>}
  ELSE {<<TokenPool[k]>> \o rest : k \in 1..Len(TokenPool), rest \in TokenListsOfLen(n - 1)}

\* every token list _fill_template can return for a pattern of PATTERNS
GeneratedTokens ==
  UNION {{_fill_template(PatternTemplate(name), draws) :
            draws \in DrawSeqs(PlaceholdersOf(PatternTemplate(name)))} :
         name \in PatternNames}

\* the token lists _apply_style is called with: the list of TestApplyStyle,
\* the lists over TokenPool, and the lists _fill_template hands it
TokenInputs ==
  {<< <<"b","r","a","v","e">>, <<"f","a","l","c","o","n">>, <<"4","2">> >>}
    \cup UNION {TokenListsOfLen(n) : n \in 1..MaxTokens}
    \cup GeneratedTokens

\* the templates _fill_template is called with: the templates of PATTERNS,
\* and templates with no text, with text only, with text between and after
\* placeholders, with two numbers, and with braces that are no placeholder
TemplateInputs ==
  {PatternTemplate(name) : name \in PatternNames}
    \cup {<<>>,
          <<"x">>,
          <<"{","a","d","j","}","_","{","n","o","u","n","}">>,
          <<"{","n","o","u","n","}","t","h","e">>,
          <<"{","n","u","m","}","{","n","u","m","}">>,
          <<"{","f","o","o","}","{","a","d","j","}">>,
          <<"m","r","{","v","e","r","b","}","{","a","d","j">>}

\* the direct calls: the function and its arguments (for _fill_template, the
\* template and the values its random draws return, in call order)
HelperCalls ==
  {[function |-> "_verbify", args |-> [verb |-> verb]] : verb \in VerbInputs}
    \cup {[function |-> "_apply_style", args |-> [tokens |-> tokens, style |-> style]] :
            tokens \in TokenInputs, style \in CaseStyle}
    \cup UNION {{[function |-> "_fill_template",
                  args |-> [template |-> template, draws |-> draws]] :
                   draws \in DrawSeqs(PlaceholdersOf(template))} :
                template \in TemplateInputs}

\* one direct call is about to be made
HelperInit ==
  /\ memo = MemoTables
  /\ config = ImportedConfig
  /\ \E call \in HelperCalls :
       /\ pc = [c \in {1} |-> "idle"]
       /\ op = [c \in {1} |-> call.function]
       /\ args = [c \in {1} |-> call.args]
       /\ attempt = [c \in {1} |-> 0]
       /\ username = [c \in {1} |-> <<>>]
       /\ seen = [c \in {1} |-> {}]
       /\ results = [c \in {1} |-> <<>>]
       /\ iter = [c \in {1} |-> 0]
       /\ produced = [c \in {1} |-> {}]
       /\ outcome = [c \in {1} |-> "none"]
       /\ retval = [c \in {1} |-> <<>>]
       /\ retlist = [c \in {1} |-> <<>>]
       /\ errmsg = [c \in {1} |-> <<>>]

\* _verbify(verb) runs and returns
VerbifyCall(c) ==
  /\ pc[c] = "idle"
  /\ op[c] = "_verbify"
  /\ ReturnStr(c, _verbify(args[c].verb))
  /\ UNCHANGED <<op, args, produced, memo, config>>

\* _apply_style(tokens, style) runs and returns
ApplyStyleCall(c) ==
  /\ pc[c] = "idle"
  /\ op[c] = "_apply_style"
  /\ ReturnStr(c, _apply_style(args[c].tokens, args[c].style))
  /\ UNCHANGED <<op, args, produced, memo, config>>

\* _fill_template(template) runs and returns its token list
FillTemplateCall(c) ==
  /\ pc[c] = "idle"
  /\ op[c] = "_fill_template"
  /\ ReturnList(c, _fill_template(args[c].template, args[c].draws))
  /\ UNCHANGED <<op, args, produced, memo, config>>

HelperNext ==
  \/ \E c \in Callers : VerbifyCall(c)
  \/ \E c \in Callers : ApplyStyleCall(c)
  \/ \E c \in Callers : FillTemplateCall(c)

HelperSpec == HelperInit /\ [][HelperNext]_vars

\* -------------------------------------------------------------- properties

\* the set of the elements of a list
Elements(list) == {list[k] : k \in 1..Len(list)}

\* no value occurs at two positions of the list
PairwiseDistinct(list) ==
  \A i, j \in 1..Len(list) : i # j => list[i] # list[j]

\* list a is an initial part of list b
IsPrefix(a, b) == Len(a) <= Len(b) /\ SubSeq(b, 1, Len(a)) = a

\* everything the model holds of one caller; it changes exactly in the steps
\* of that caller
Frame(c) ==
  <<pc[c], op[c], args[c], attempt[c], username[c], seen[c], results[c], iter[c],
    produced[c], outcome[c], retval[c], retlist[c], errmsg[c]>>

\* generate_batch(count) with every other argument at its default
DefaultBatchArgs(a) ==
  /\ a.pattern = None
  /\ a.style = "PASCAL"
  /\ a.unique
  /\ a.max_length = MAX_USERNAME_LENGTH
  /\ a.include = Absent

\* C1: for every max_length >= 1, every pattern (a valid name or none) and
\* every style, the str that generate_username returns is at most max_length
\* characters long, whatever the random draws select; this holds of a call by
\* the client and of every call generate_batch makes.
C1_ReturnedLengthWithinMax ==
  \A c \in Callers :
    /\ (/\ op[c] = "generate_username"
        /\ outcome[c] = "returned"
        /\ args[c].max_length >= 1)
         => Len(retval[c]) <= args[c].max_length
    /\ (op[c] = "generate_batch" /\ args[c].max_length >= 1)
         => \A name \in produced[c] : Len(name) <= args[c].max_length

\* C1 witness: a call with max_length 1 has returned; every candidate is
\* longer, so the str went through all 50 iterations and the truncation
C1_TruncatedToMaxLength ==
  \E c \in Callers :
    /\ op[c] = "generate_username"
    /\ outcome[c] = "returned"
    /\ args[c].max_length = 1
    /\ Len(retval[c]) = 1

\* C2: for every key of PATTERNS, generate_username(pattern=name) with the
\* default style and the default max_length returns, and what it returns is a
\* non-empty str.
C2_ValidPatternReturnsNonEmpty ==
  \A c \in Callers :
    (/\ op[c] = "generate_username"
     /\ pc[c] = "done"
     /\ args[c].pattern \in PatternNames
     /\ args[c].style = "PASCAL"
     /\ args[c].max_length = MAX_USERNAME_LENGTH
     /\ args[c].include = Absent)
      => /\ outcome[c] = "returned"
         /\ Len(retval[c]) > 0

\* C2 witness: a call naming a key of PATTERNS, all else at its default, is
\* over and has returned a non-empty str
C2_NamedPatternReturned ==
  \E c \in Callers :
    /\ op[c] = "generate_username"
    /\ pc[c] = "done"
    /\ args[c].pattern \in PatternNames
    /\ args[c].style = "PASCAL"
    /\ args[c].max_length = MAX_USERNAME_LENGTH
    /\ args[c].include = Absent
    /\ outcome[c] = "returned"
    /\ Len(retval[c]) > 0

\* the keys of PATTERNS in ascending order, written out
ValidNamesListing ==
  << <<"a","g","e","n","t">>, <<"c","l","a","s","s","i","c">>, <<"d","u","o">>,
     <<"n","u","m","b","e","r","e","d","_","v","e","r","b","e","r">>,
     <<"t","h","e">>, <<"v","e","r","b","e","r">> >>

\* what C3 asks of a call that is to fail: it is over at once with a
\* ValueError and no returned str; the message starts with "Unknown pattern",
\* carries the name in quotes, and ends with the keys of PATTERNS in ascending
\* order, joined by ", "
C3_Raised(c) ==
  /\ pc[c] = "done"
  /\ outcome[c] = "ValueError"
  /\ retval[c] = <<>>
  /\ OccursAt(errmsg[c], 0,
              <<"U","n","k","n","o","w","n"," ","p","a","t","t","e","r","n">>)
  /\ Contains(errmsg[c], <<"'">> \o args[c].pattern \o <<"'">>)
  /\ endswith(errmsg[c], join(<<",", " ">>, ValidNamesListing))

C4_UniqueBatchDistinctAtMostCount ==
  \A c \in Callers :
    (/\ op[c] = "generate_batch"
     /\ args[c].unique
     /\ outcome[c] = "returned")
      => /\ PairwiseDistinct(retlist[c])
         /\ args[c].count >= 0 => Len(retlist[c]) <= args[c].count
         /\ args[c].count < 0 => retlist[c] = <<>>

\* C4 witness: a unique batch of at least two has returned count distinct names
C4_FullUniqueBatch ==
  \E c \in Callers :
    /\ op[c] = "generate_batch"
    /\ args[c].unique
    /\ outcome[c] = "returned"
    /\ args[c].count >= 2
    /\ Len(retlist[c]) = args[c].count

\* C5 as stated: generate_batch(count) called with the default arguments
\* returns exactly count usernames (count >= 0).  The code does not keep it:
\* when all count * 10 calls return names already collected, fewer come back.
C5_DefaultBatchReturnsExactlyCount ==
  \A c \in Callers :
    (/\ op[c] = "generate_batch"
     /\ DefaultBatchArgs(args[c])
     /\ args[c].count >= 0
     /\ outcome[c] = "returned")
      => Len(retlist[c]) = args[c].count

\* the return of a generate_batch(count) call with the default arguments
C5_ReturnStep(c) ==
  (/\ pc[c] # "done"
   /\ pc'[c] = "done"
   /\ op'[c] = "generate_batch"
   /\ DefaultBatchArgs(args'[c])
   /\ outcome'[c] = "returned")
    => \/ Len(retlist'[c]) = args'[c].count
       \/ /\ args'[c].count < 0
          /\ retlist'[c] = <<>>
       \/ /\ pc[c] = "batch_loop"
          /\ iter[c] + 1 = args[c].count * 10
          /\ Len(retlist'[c]) >= 1
          /\ Len(retlist'[c]) < args[c].count

\* C5 amended: generate_batch(count) called with the default arguments
\* returns exactly count usernames (none for a negative count), except that a
\* call whose count * 10 generate_username calls are used up before count
\* distinct names are collected returns, with its last call, the names
\* collected: at least one and fewer than count.
C5_DefaultBatchExactUnlessBudgetSpent ==
  [][\A c \in Callers : C5_ReturnStep(c)]_vars

\* C5 witness: generate_batch(2) with the default arguments has returned one
\* name only
C5_DefaultBatchCameBackShort ==
  \E c \in Callers :
    /\ op[c] = "generate_batch"
    /\ DefaultBatchArgs(args[c])
    /\ outcome[c] = "returned"
    /\ args[c].count = 2
    /\ Len(retlist[c]) = 1

\* a batch with unique=False whose pattern generate_username accepts
C6_PlainBatch(c) ==
  /\ op[c] = "generate_batch"
  /\ ~args[c].unique
  /\ args[c].include = Absent
  /\ args[c].pattern \in PatternNames \cup {None}

\* while the list is built it holds one element per call made, and fewer than
\* count calls have been made; the returned list has count elements (count >=
\* 0) and they are the values the calls returned
C6_Counts ==
  \A c \in Callers :
    C6_PlainBatch(c) =>
      /\ pc[c] = "comprehension" =>
           /\ Len(results[c]) = iter[c]
           /\ iter[c] < args[c].count
           /\ Elements(results[c]) = produced[c]
      /\ (pc[c] = "done" /\ args[c].count >= 0) =>
           /\ outcome[c] = "returned"
           /\ Len(retlist[c]) = args[c].count
           /\ Elements(retlist[c]) = produced[c]

\* each call adds the value it returned at the end of the list, also a value
\* the list already holds, and the call number count returns the list
C6_CallStep(c) ==
  (C6_PlainBatch(c) /\ pc[c] = "comprehension" /\ Frame(c)' # Frame(c))
    => \E name \in produced'[c] :
         /\ produced'[c] = produced[c] \cup {name}
         /\ IF iter[c] + 1 = args[c].count
            THEN /\ pc'[c] = "done"
                 /\ outcome'[c] = "returned"
                 /\ retlist'[c] = results[c] \o <<name>>
            ELSE /\ pc'[c] = "comprehension"
                 /\ iter'[c] = iter[c] + 1
                 /\ results'[c] = results[c] \o <<name>>

\* C6: generate_batch with unique=False calls generate_username exactly count
\* times and returns exactly the count values of these calls in call order,
\* duplicates kept (count >= 0, and a pattern generate_username accepts).
C6_PlainBatchKeepsEveryCall ==
  []C6_Counts /\ [][\A c \in Callers : C6_CallStep(c)]_vars

\* C6 witness: a batch of two with unique=False has returned the same name
\* twice, and a pattern that offers more than one name
C6_DuplicateKept ==
  \E c \in Callers :
    /\ op[c] = "generate_batch"
    /\ ~args[c].unique
    /\ outcome[c] = "returned"
    /\ args[c].pattern = <<"c","l","a","s","s","i","c">>
    /\ args[c].max_length = MAX_USERNAME_LENGTH
    /\ Len(retlist[c]) = 2
    /\ retlist[c][1] = retlist[c][2]

\* C7: generate_batch with count = 0 is over at once, for unique=True and for
\* unique=False: it has returned the empty list, no generate_username call
\* was made (none returned a value, none raised), and no loop was entered.
C7_ZeroCountReturnsEmptyWithoutCall ==
  \A c \in Callers :
    (/\ op[c] = "generate_batch"
     /\ args[c].count = 0
     /\ args[c].include = Absent)
      => /\ pc[c] = "done"
         /\ outcome[c] = "returned"
         /\ retlist[c] = <<>>
         /\ produced[c] = {}
         /\ iter[c] = 0

\* C7 witness: generate_batch(0, pattern="nonexistent", unique=False) has
\* returned: the call that would raise was never made
C7_ZeroCountReturned ==
  \E c \in Callers :
    /\ op[c] = "generate_batch"
    /\ args[c].count = 0
    /\ ~args[c].unique
    /\ args[c].pattern = Nonexistent
    /\ outcome[c] = "returned"
    /\ retlist[c] = <<>>

\* the step of a unique batch that makes a generate_username call
C8_CallStep(c) ==
  /\ op[c] = "generate_batch"
  /\ args[c].unique
  /\ pc[c] = "batch_loop"
  /\ Frame(c)' # Frame(c)

\* the call number count * 10 ends the batch with a returned list and no
\* error: the distinct names produced, in the order collected
C8_LastCallReturns(c) ==
  (C8_CallStep(c) /\ iter[c] + 1 = args[c].count * 10)
    => /\ pc'[c] = "done"
       /\ outcome'[c] = "returned"
       /\ errmsg'[c] = <<>>
       /\ Len(retlist'[c]) <= args[c].count
       /\ IsPrefix(results[c], retlist'[c])
       /\ Elements(retlist'[c]) = produced'[c]

\* a list of fewer than count names is returned by that call only
C8_ShortOnlyWhenSpent(c) ==
  (/\ C8_CallStep(c)
   /\ outcome'[c] = "returned"
   /\ Len(retlist'[c]) < args[c].count)
    => iter[c] + 1 = args[c].count * 10

\* C8: in generate_batch with unique=True, once count * 10 generate_username
\* calls are made the call returns the distinct names produced so far and
\* raises nothing, also when they are fewer than count; a list of fewer than
\* count names comes back in no other way.
C8_BudgetSpentReturnsCollected ==
  [][\A c \in Callers : C8_LastCallReturns(c) /\ C8_ShortOnlyWhenSpent(c)]_vars

\* C8 witness: a unique batch of two of pattern "duo" has returned a single
\* name
C8_NamedBatchCameBackShort ==
  \E c \in Callers :
    /\ op[c] = "generate_batch"
    /\ args[c].unique
    /\ args[c].pattern = <<"d","u","o">>
    /\ outcome[c] = "returned"
    /\ args[c].count = 2
    /\ Len(retlist[c]) = 1

\* a unique batch holds each name produced exactly once
C9_FirstOccurrences ==
  \A c \in Callers :
    (op[c] = "generate_batch" /\ args[c].unique) =>
      /\ pc[c] = "batch_loop" =>
           /\ PairwiseDistinct(results[c])
           /\ Elements(results[c]) = produced[c]
           /\ seen[c] = produced[c]
      /\ outcome[c] = "returned" =>
           /\ PairwiseDistinct(retlist[c])
           /\ Elements(retlist[c]) = produced[c]

\* a call whose name the list holds leaves the list as it is; any other name
\* goes to the end of the list
C9_CallStep(c) ==
  (C8_CallStep(c) /\ outcome'[c] # "ValueError")
    => LET list == IF pc'[c] = "done" THEN retlist'[c] ELSE results'[c]
       IN  \E name \in produced'[c] :
             /\ produced'[c] = produced[c] \cup {name}
             /\ list = IF name \in Elements(results[c])
                       THEN results[c]
                       ELSE results[c] \o <<name>>

\* C9: in generate_batch with unique=True the list is the sequence of first
\* occurrences of the names its generate_username calls return, in the order
\* produced: a name already collected is discarded when produced again and
\* moves no earlier element.
C9_ResultIsFirstOccurrencesInOrder ==
  []C9_FirstOccurrences /\ [][\A c \in Callers : C9_CallStep(c)]_vars

\* C9 witness: a unique batch of three has used up its calls with two names
\* collected, so every later call produced one of the two again
C9_RepeatsDiscarded ==
  \E c \in Callers :
    /\ op[c] = "generate_batch"
    /\ args[c].unique
    /\ outcome[c] = "returned"
    /\ args[c].count = 3
    /\ Len(retlist[c]) = 2

\* C10 as stated: generate_username(include=w) returns a str that contains w,
\* case-insensitively for an alphabetic w and literally for a numeric one.
\* The code does not keep it: generate_username has no parameter "include",
\* so the call raises TypeError and returns nothing.
C10_IncludeWordAppears ==
  \A c \in Callers :
    (/\ op[c] = "generate_username"
     /\ pc[c] = "done"
     /\ args[c].include # Absent
     /\ ~RejectsPattern(args[c].pattern))
      => /\ outcome[c] = "returned"
         /\ IF isalpha(args[c].include)
            THEN Contains(lower(retval[c]), lower(args[c].include))
            ELSE Contains(retval[c], args[c].include)

\* C11 as stated: generate_batch(count, include=w) returns a list whose every
\* element contains w, case-insensitively.  The code does not keep it:
\* generate_batch has no parameter "include", so the call raises TypeError and
\* returns no list.
C11_BatchIncludeInEveryElement ==
  \A c \in Callers :
    (/\ op[c] = "generate_batch"
     /\ pc[c] = "done"
     /\ args[c].include # Absent
     /\ args[c].pattern \in PatternNames \cup {None})
      => /\ outcome[c] = "returned"
         /\ \A k \in 1..Len(retlist[c]) :
              Contains(lower(retlist[c][k]), lower(args[c].include))

\* a generate_username call in its retry loop
C12_InRetryLoop(c) == op[c] = "generate_username" /\ pc[c] = "retry_loop"

\* <<pattern name, style, candidate>> for every candidate of CandidateTable
RenderedCandidates ==
  UNION {{<<request[1], request[2], text>> : text \in CandidateTable[request]} :
         request \in DOMAIN CandidateTable}

\* the text is a candidate an attempt of the call of caller c can produce
IsCandidateOf(c, text) ==
  \E selected_pattern \in SelectedPatterns(args[c].pattern) :
    <<selected_pattern, args[c].style, text>> \in RenderedCandidates

\* after an attempt that did not return, "username" is the candidate of that
\* attempt, and it is longer than max_length
C12_LastCandidateKept ==
  \A c \in Callers :
    (C12_InRetryLoop(c) /\ attempt[c] >= 1)
      => /\ IsCandidateOf(c, username[c])
         /\ Len(username[c]) > args[c].max_length

\* an attempt that does not return is counted and leaves its candidate
C12_OverflowStep(c) ==
  (C12_InRetryLoop(c) /\ pc'[c] = "retry_loop" /\ Frame(c)' # Frame(c))
    => /\ attempt'[c] = attempt[c] + 1
       /\ IsCandidateOf(c, username'[c])
       /\ Len(username'[c]) > args[c].max_length

\* after 50 such attempts the call returns, with no error, the first
\* max_length characters of the candidate left by the 50th
C12_FallbackStep(c) ==
  (C12_InRetryLoop(c) /\ attempt[c] = 50 /\ Frame(c)' # Frame(c))
    => /\ pc'[c] = "done"
       /\ outcome'[c] = "returned"
       /\ errmsg'[c] = <<>>
       /\ args[c].max_length >= 0
            => retval'[c] = SubSeq(username[c], 1, args[c].max_length)

\* C12: if all 50 attempts of generate_username produce a candidate longer
\* than max_length, the call does not fail: it returns the candidate of the
\* 50th attempt cut to its first max_length characters (max_length >= 0).
C12_AllOverflowReturnsTruncatedLast ==
  /\ []C12_LastCandidateKept
  /\ [][\A c \in Callers : C12_OverflowStep(c) /\ C12_FallbackStep(c)]_vars

\* C12 witness: generate_username(pattern="duo", max_length=14) has returned
\* 14 characters; every "duo" candidate of the draws is longer
C12_FallbackTruncated ==
  \E c \in Callers :
    /\ op[c] = "generate_username"
    /\ outcome[c] = "returned"
    /\ args[c].pattern = <<"d","u","o">>
    /\ args[c].max_length = 14
    /\ Len(retval[c]) = 14
    /\ \A candidate \in Candidates(args[c].pattern, args[c].style) :
         /\ Len(candidate) > 14
         /\ \E longer \in Candidates(args[c].pattern, args[c].style) :
              retval[c] = SubSeq(longer, 1, 14)

\* a direct call of a function that is over
HelperReturned(c, function) ==
  op[c] = function /\ pc[c] = "done" /\ outcome[c] = "returned"

\* the three rules of the agent noun, in priority order
C13_AgentNoun(verb) ==
  LET n == Len(verb)
      vowels == {"a", "e", "i", "o", "u"}
  IN  IF verb[n] = "e" THEN verb \o <<"r">>
      ELSE IF /\ n >= 3
              /\ verb[n] \notin vowels \cup {"w", "y"}
              /\ verb[n - 1] \in vowels
              /\ verb[n - 2] \notin vowels
           THEN verb \o <<verb[n], "e", "r">>
      ELSE verb \o <<"e", "r">>

\* C13: for every verb of lowercase letters of length >= 1, _verbify returns
\* (it raises nothing) the result of the three rules in priority order: verb +
\* "r" if it ends in "e"; else verb + last letter + "er" if it has at least 3
\* letters, the last is a consonant other than w and y, the one before is a
\* vowel and the one before that is a consonant; else verb + "er".  So gaze
\* gives gazer, run gives runner and jump gives jumper.
C13_VerbifyFollowsThreeRules ==
  \A c \in Callers :
    /\ (op[c] = "_verbify" /\ pc[c] = "done")
         => /\ outcome[c] = "returned"
            /\ retval[c] = C13_AgentNoun(args[c].verb)
    /\ (HelperReturned(c, "_verbify") /\ args[c].verb = <<"g","a","z","e">>)
         => retval[c] = <<"g","a","z","e","r">>
    /\ (HelperReturned(c, "_verbify") /\ args[c].verb = <<"r","u","n">>)
         => retval[c] = <<"r","u","n","n","e","r">>
    /\ (HelperReturned(c, "_verbify") /\ args[c].verb = <<"j","u","m","p">>)
         => retval[c] = <<"j","u","m","p","e","r">>

\* C13 witness: _verbify("run") has returned "runner"
C13_RunGivesRunner ==
  \E c \in Callers :
    /\ HelperReturned(c, "_verbify")
    /\ args[c].verb = <<"r","u","n">>
    /\ retval[c] = <<"r","u","n","n","e","r">>

\* the 0-based offset of token k in the concatenation of the tokens with a
\* separator of gap characters between consecutive tokens
RECURSIVE TokenStart(_, _, _)
TokenStart(tokens, k, gap) ==
  IF k = 1 THEN 0
  ELSE TokenStart(tokens, k - 1, gap) + Len(tokens[k - 1]) + gap

\* text is made of the tokens in order, gap characters apart, nothing before
\* the first and nothing after the last, the character i of token k shown as
\* Shown(k, i)
MadeOfTokens(text, tokens, gap, Shown(_, _)) ==
  /\ Len(text) = TokenStart(tokens, Len(tokens), gap) + Len(tokens[Len(tokens)])
  /\ \A k \in 1..Len(tokens) :
       \A i \in 1..Len(tokens[k]) :
         text[TokenStart(tokens, k, gap) + i] = Shown(k, i)

\* every character of the token is a letter / a digit
AllLetters(token) == \A i \in 1..Len(token) : IsAlphaChar(token[i])

AllDigits(token) == \A i \in 1..Len(token) : IsDigitChar(token[i])

\* C14: _apply_style with style PASCAL returns the tokens in order with no
\* separator, every token lower-cased, the first letter of each alphabetic
\* token upper-cased, and a numeric token as it was; so [brave, falcon, 42]
\* gives BraveFalcon42.
C14_PascalCapitalizesAlphabeticTokens ==
  \A c \in Callers :
    (HelperReturned(c, "_apply_style") /\ args[c].style = "PASCAL")
      => LET tokens == args[c].tokens
             Shown(k, i) == IF AllLetters(tokens[k]) /\ i = 1
                            THEN CharUpper(tokens[k][i])
                            ELSE CharLower(tokens[k][i])
         IN  /\ MadeOfTokens(retval[c], tokens, 0, Shown)
             /\ \A k \in 1..Len(tokens) :
                  AllDigits(tokens[k])
                    => SubSeq(retval[c], TokenStart(tokens, k, 0) + 1,
                              TokenStart(tokens, k, 0) + Len(tokens[k])) = tokens[k]
             /\ tokens = << <<"b","r","a","v","e">>, <<"f","a","l","c","o","n">>, <<"4","2">> >>
                  => retval[c] = <<"B","r","a","v","e","F","a","l","c","o","n","4","2">>

\* C14 witness: _apply_style([brave, falcon, 42], PASCAL) has returned
\* BraveFalcon42
C14_BraveFalcon42 ==
  \E c \in Callers :
    /\ HelperReturned(c, "_apply_style")
    /\ args[c].style = "PASCAL"
    /\ args[c].tokens = << <<"b","r","a","v","e">>, <<"f","a","l","c","o","n">>, <<"4","2">> >>
    /\ retval[c] = <<"B","r","a","v","e","F","a","l","c","o","n","4","2">>

\* C15: _apply_style with style SNAKE (KEBAB) returns the lower-cased tokens
\* in their order joined by "_" ("-"): exactly one separator between
\* consecutive tokens, none before the first token and none after the last.
C15_SnakeKebabJoinWithOneSeparator ==
  \A c \in Callers :
    (HelperReturned(c, "_apply_style") /\ args[c].style \in {"SNAKE", "KEBAB"})
      => LET tokens == args[c].tokens
             sep == IF args[c].style = "SNAKE" THEN "_" ELSE "-"
             Shown(k, i) == CharLower(tokens[k][i])
         IN  /\ MadeOfTokens(retval[c], tokens, 1, Shown)
             /\ \A k \in 2..Len(tokens) : retval[c][TokenStart(tokens, k, 1)] = sep
             /\ Cardinality({i \in 1..Len(retval[c]) : retval[c][i] = sep})
                  = Len(tokens) - 1
             /\ retval[c][1] # sep
             /\ retval[c][Len(retval[c])] # sep

\* C15 witness: _apply_style([brave, falcon, 42], SNAKE) has returned
\* brave_falcon_42
C15_BraveFalconSnake ==
  \E c \in Callers :
    /\ HelperReturned(c, "_apply_style")
    /\ args[c].style = "SNAKE"
    /\ args[c].tokens = << <<"b","r","a","v","e">>, <<"f","a","l","c","o","n">>, <<"4","2">> >>
    /\ retval[c] = <<"b","r","a","v","e","_","f","a","l","c","o","n","_","4","2">>

\* C16: _apply_style with style LOWER returns the lower-cased tokens in order
\* with no separator, and with style UPPER the same text with every letter
\* upper-cased; so a LOWER result has no upper-case letter, no "_" and no
\* "-", and an UPPER result has no lower-case letter (the token lists include
\* every list _fill_template returns).
C16_LowerUpperConcatenate ==
  \A c \in Callers :
    LET tokens == args[c].tokens
        Lowered(k, i) == CharLower(tokens[k][i])
        Uppered(k, i) == CharUpper(CharLower(tokens[k][i]))
    IN  /\ (HelperReturned(c, "_apply_style") /\ args[c].style = "LOWER")
             => /\ MadeOfTokens(retval[c], tokens, 0, Lowered)
                /\ \A i \in 1..Len(retval[c]) :
                     /\ ~IsUpperChar(retval[c][i])
                     /\ retval[c][i] \notin {"_", "-"}
        /\ (HelperReturned(c, "_apply_style") /\ args[c].style = "UPPER")
             => /\ MadeOfTokens(retval[c], tokens, 0, Uppered)
                /\ \A i \in 1..Len(retval[c]) : ~IsLowerChar(retval[c][i])

\* C16 witness: _apply_style([Falcon, 42], UPPER) has returned FALCON42
C16_Falcon42Upper ==
  \E c \in Callers :
    /\ HelperReturned(c, "_apply_style")
    /\ args[c].style = "UPPER"
    /\ args[c].tokens = << <<"F","a","l","c","o","n">>, <<"4","2">> >>
    /\ retval[c] = <<"F","A","L","C","O","N","4","2">>

\* a generate_username call that has returned, made with a valid pattern
\* name or none and without "include"
GeneratedWith(c, style) ==
  /\ op[c] = "generate_username"
  /\ outcome[c] = "returned"
  /\ args[c].style = style
  /\ args[c].pattern \in PatternNames \cup {None}
  /\ args[c].include = Absent

\* every word of the three banks is made of lower-case letters only
BankWordsAreLowerCaseLetters ==
  \A bank \in {ADJECTIVES, NOUNS, VERBS} :
    \A k \in 1..Len(bank) :
      Len(bank[k]) > 0 /\ \A i \in 1..Len(bank[k]) : IsLowerChar(bank[k][i])

\* every template of PATTERNS starts with a letter or a word placeholder and
\* holds no "_" and no "-" outside its placeholders
TemplatesStartWithAWord ==
  \A name \in PatternNames :
    LET template == PatternTemplate(name)
    IN  /\ \/ IsAlphaChar(template[1])
           \/ OccursAt(template, 0, <<"{","a","d","j","}">>)
           \/ OccursAt(template, 0, <<"{","n","o","u","n","}">>)
        /\ \A i \in 1..Len(template) : template[i] \notin {"_", "-"}

\* C17: generate_username with the default style PASCAL and max_length >= 1
\* returns a str whose first character is an upper-case letter or a digit and
\* which holds neither "_" nor "-", for an explicit valid pattern and for
\* every pattern the weighted selection can pick; the words of the banks and
\* the templates give it no other character to start with.
C17_PascalStartsUpperNoSeparator ==
  /\ BankWordsAreLowerCaseLetters
  /\ TemplatesStartWithAWord
  /\ \A c \in Callers :
       (GeneratedWith(c, "PASCAL") /\ args[c].max_length >= 1)
         => /\ Len(retval[c]) >= 1
            /\ IsUpperChar(retval[c][1]) \/ IsDigitChar(retval[c][1])
            /\ \A i \in 1..Len(retval[c]) : retval[c][i] \notin {"_", "-"}

\* C17 witness: generate_username() with every argument at its default has
\* returned a name of the pattern "classic", a capital first and a digit last
C17_DefaultCallReturnedPascal ==
  \E c \in Callers :
    /\ GeneratedWith(c, "PASCAL")
    /\ args[c].pattern = None
    /\ args[c].max_length = MAX_USERNAME_LENGTH
    /\ IsUpperChar(retval[c][1])
    /\ IsDigitChar(retval[c][Len(retval[c])])

\* the first token of every template is shorter than the default max_length,
\* so that the first separator is within the first max_length characters
FirstSeparatorWithinDefaultLength ==
  /\ \A k \in 1..Len(ADJECTIVES) : Len(ADJECTIVES[k]) < MAX_USERNAME_LENGTH
  /\ \A k \in 1..Len(NOUNS) : Len(NOUNS[k]) < MAX_USERNAME_LENGTH
  /\ \A name \in PatternNames :
       /\ Len(PlaceholdersOf(PatternTemplate(name))) >= 2
       /\ re_search(PatternTemplate(name)).start < MAX_USERNAME_LENGTH

\* C18: generate_username with style SNAKE (KEBAB) and the default max_length
\* returns a str without upper-case letter that holds at least one "_"
\* ("-"), for an explicit valid pattern and for every pattern the weighted
\* selection can pick; every template has two tokens or more and a first token
\* shorter than the default max_length.
C18_SnakeKebabLowerWithSeparator ==
  /\ FirstSeparatorWithinDefaultLength
  /\ \A c \in Callers :
       \A style \in {"SNAKE", "KEBAB"} :
         (GeneratedWith(c, style) /\ args[c].max_length = MAX_USERNAME_LENGTH)
           => /\ \A i \in 1..Len(retval[c]) : ~IsUpperChar(retval[c][i])
              /\ \E i \in 1..Len(retval[c]) :
                   retval[c][i] = IF style = "SNAKE" THEN "_" ELSE "-"

\* C18 witness: generate_username(style=SNAKE) has returned a name of the
\* full default length with a "_" in it
C18_SnakeNameReturned ==
  \E c \in Callers :
    /\ GeneratedWith(c, "SNAKE")
    /\ args[c].pattern = None
    /\ args[c].max_length = MAX_USERNAME_LENGTH
    /\ Len(retval[c]) = MAX_USERNAME_LENGTH
    /\ \E i \in 1..Len(retval[c]) : retval[c][i] = "_"

\* fewer than 50 attempts are over while the loop runs, or the 50 of them
\* with the fallback still to come; each of them overflowed
C19_AttemptsBounded ==
  \A c \in Callers :
    C12_InRetryLoop(c)
      => /\ attempt[c] <= 50
         /\ attempt[c] >= 1 => Len(username[c]) > args[c].max_length

\* an attempt returns its candidate if it fits and goes on to the next
\* attempt if not
C19_AttemptStep(c) ==
  (C12_InRetryLoop(c) /\ attempt[c] < 50 /\ Frame(c)' # Frame(c))
    => \/ /\ pc'[c] = "done"
          /\ outcome'[c] = "returned"
          /\ IsCandidateOf(c, retval'[c])
          /\ Len(retval'[c]) <= args[c].max_length
       \/ /\ pc'[c] = "retry_loop"
          /\ attempt'[c] = attempt[c] + 1
          /\ Len(username'[c]) > args[c].max_length

\* a call that is over does nothing more: the caller takes its outcome
C19_NothingAfterReturn(c) ==
  (op[c] = "generate_username" /\ pc[c] = "done" /\ Frame(c)' # Frame(c))
    => /\ pc'[c] = "idle"
       /\ attempt'[c] = 0
       /\ username'[c] = <<>>

\* C19: generate_username makes at most 50 attempts and returns the candidate
\* of the first attempt whose length is <= max_length; after that attempt it
\* makes no further pattern pick, template fill or random draw.
C19_ReturnsFirstFittingCandidate ==
  /\ []C19_AttemptsBounded
  /\ [][\A c \in Callers : C19_AttemptStep(c) /\ C19_NothingAfterReturn(c)]_vars

\* C19 witness: generate_username(max_length=14) has returned a candidate
\* shorter than 14, where the weighted selection also offers longer ones
C19_FittingCandidateReturned ==
  \E c \in Callers :
    /\ GeneratedWith(c, "PASCAL")
    /\ args[c].pattern = None
    /\ args[c].max_length = 14
    /\ Len(retval[c]) < 14
    /\ retval[c] \in Candidates(None, "PASCAL")
    /\ \E candidate \in Candidates(None, "PASCAL") : Len(candidate) > 14

\* while the unique loop runs, fewer than count * 10 calls are made and fewer
\* than count names are collected
C20_LoopWithinBudget ==
  \A c \in Callers :
    (op[c] = "generate_batch" /\ args[c].unique /\ pc[c] = "batch_loop")
      => /\ iter[c] < args[c].count * 10
         /\ Len(results[c]) < args[c].count

\* each step of the loop is one call; the call that brings the list to count
\* names, and the call number count * 10, end the batch
C20_CallStep(c) ==
  C8_CallStep(c)
    => LET list == IF pc'[c] = "done" THEN retlist'[c] ELSE results'[c]
       IN  /\ pc'[c] \in {"batch_loop", "done"}
           /\ pc'[c] = "batch_loop" => iter'[c] = iter[c] + 1
           /\ (Len(list) >= args[c].count \/ iter[c] + 1 >= args[c].count * 10)
                => pc'[c] = "done"

\* a batch that is over makes no call: the caller takes its outcome
C20_NothingAfterReturn(c) ==
  (op[c] = "generate_batch" /\ pc[c] = "done" /\ Frame(c)' # Frame(c))
    => /\ pc'[c] = "idle"
       /\ produced'[c] = {}

\* C20: generate_batch with unique=True makes at most count * 10
\* generate_username calls, and makes no further call once count distinct
\* names are collected.
C20_UniqueBatchStopsAtCountOrBudget ==
  /\ []C20_LoopWithinBudget
  /\ [][\A c \in Callers : C20_CallStep(c) /\ C20_NothingAfterReturn(c)]_vars

\* C20 witness: generate_batch(2, pattern="classic", style=SNAKE) has
\* returned two names
C20_StoppedAtCount ==
  \E c \in Callers :
    /\ op[c] = "generate_batch"
    /\ args[c].unique
    /\ args[c].pattern = <<"c","l","a","s","s","i","c">>
    /\ args[c].style = "SNAKE"
    /\ args[c].max_length = MAX_USERNAME_LENGTH
    /\ args[c].count = 2
    /\ outcome[c] = "returned"
    /\ Len(retlist[c]) = 2


\* a call is executing the body of its function
C21_Running(c) == pc[c] \in {"retry_loop", "comprehension", "batch_loop"}

\* the work done so far by a running call is under its cap: fewer than 50
\* failed attempts before another attempt, at most 50 in all; fewer than
\* count * 10 Generator calls done in the unique loop and fewer than count in
\* the comprehension, each before another one is made
C21_WorkBounded ==
  \A c \in Callers :
    /\ pc[c] = "retry_loop" => attempt[c] \in 0..RetryLimit
    /\ pc[c] = "batch_loop" =>
         /\ args[c].count >= 1
         /\ iter[c] \in 0..(args[c].count * AttemptFactor - 1)
    /\ pc[c] = "comprehension" =>
         /\ args[c].count >= 1
         /\ iter[c] \in 0..(args[c].count - 1)

\* in the scan of every registered template, whatever remainder the loop of
\* _fill_template is at, a match ends after at least one character of it, so
\* the next remainder is strictly shorter (and no match ends the loop)
C21_RemainderShrinks ==
  \A name \in PatternNames :
    LET template == PatternTemplate(name)
    IN  \A k \in 0..Len(template) :
          LET remainder == SliceFrom(template, k)
              match == re_search(remainder)
          IN  match.found =>
                /\ 0 <= match.start
                /\ match.start < match.end
                /\ match.end <= Len(remainder)
                /\ Len(SliceFrom(remainder, match.end)) < Len(remainder)

\* C21: every call of generate_username and generate_batch ends (returns or
\* raises) without being cancelled: a running generate_username has made at
\* most 50 attempts, a running generate_batch at most count * 10 (unique) or
\* count (not unique) Generator calls, each template fill shortens its
\* remainder at every step, and a call that is running reaches its end
C21_EveryCallTerminates ==
  /\ [](C21_WorkBounded /\ C21_RemainderShrinks)
  /\ \A c \in {1} : C21_Running(c) ~> (pc[c] = "done")

\* a generate_username call that no candidate could fit (max_length 0) has
\* returned: it came to its end through all 50 attempts
C21_ReturnedAfterAllAttempts ==
  \E c \in Callers :
    /\ pc[c] = "done"
    /\ op[c] = "generate_username"
    /\ args[c].max_length = 0
    /\ outcome[c] = "returned"


\* the 0-based offsets of a template at which a placeholder stands
C22_Holes(template) ==
  {at \in 0..Len(template) :
     \E p \in 1..Len(PlaceholderNames) :
        OccursAt(template, at, Braced(PlaceholderNames[p]))}

\* the name of the placeholder at an offset of C22_Holes
C22_HoleName(template, at) ==
  PlaceholderNames[CHOOSE p \in 1..Len(PlaceholderNames) :
                     OccursAt(template, at, Braced(PlaceholderNames[p]))]

\* the offset just after the placeholder at an offset of C22_Holes
C22_HoleEnd(template, at) == at + Len(C22_HoleName(template, at)) + 2

\* the offset at which the literal text starting at "from" stops: the next
\* placeholder, or the end of the template
C22_RunStop(template, from) ==
  LET later == {at \in C22_Holes(template) : at >= from}
  IN  IF later = {} THEN Len(template)
      ELSE CHOOSE at \in later : \A other \in later : at <= other

\* the offsets at which a non-empty maximal literal run starts: the start of
\* the template or the end of a placeholder, with text before the next one
C22_Runs(template) ==
  {from \in {0} \cup {C22_HoleEnd(template, at) : at \in C22_Holes(template)} :
     C22_RunStop(template, from) > from}

\* the position in the token list of the piece (run or placeholder) that
\* starts at an offset, counting the pieces in template order
C22_TokenIndex(template, at) ==
  1 + Cardinality({piece \in C22_Holes(template) \cup C22_Runs(template) : piece < at})

\* a token stands for a placeholder of the given name
C22_TokenOfKind(token, name) ==
  CASE name = <<"a","d","j">> -> \E k \in 1..Len(ADJECTIVES) : token = ADJECTIVES[k]
    [] name = <<"n","o","u","n">> -> \E k \in 1..Len(NOUNS) : token = NOUNS[k]
    [] name = <<"v","e","r","b">> -> \E k \in 1..Len(VERBS) : token = C13_AgentNoun(VERBS[k])
    [] name = <<"n","u","m">> -> Len(token) >= 1 /\ AllDigits(token)

\* C22: _fill_template emits its tokens in template order: every maximal
\* non-empty literal run between placeholders is one token equal to its exact
\* text, every placeholder is one token (an adjective or a noun of the word
\* bank, the agent noun of a verb of the word bank, or a number), and the
\* number of tokens is the number of placeholders plus the number of
\* non-empty literal runs
C22_TokensFollowTemplate ==
  \A c \in Callers :
    HelperReturned(c, "_fill_template") =>
      LET template == args[c].template
          tokens == retlist[c]
      IN  /\ Len(tokens) = Cardinality(C22_Holes(template)) + Cardinality(C22_Runs(template))
          /\ \A from \in C22_Runs(template) :
               tokens[C22_TokenIndex(template, from)]
                 = SubSeq(template, from + 1, C22_RunStop(template, from))
          /\ \A at \in C22_Holes(template) :
               C22_TokenOfKind(tokens[C22_TokenIndex(template, at)],
                               C22_HoleName(template, at))

\* the template "the{adj}{noun}" of the registry came back as three tokens,
\* the literal "the" first
C22_TheTemplateFilled ==
  \E c \in Callers :
    /\ HelperReturned(c, "_fill_template")
    /\ args[c].template = PatternTemplate(<<"t","h","e">>)
    /\ Len(retlist[c]) = 3
    /\ retlist[c][1] = <<"t","h","e">>
    /\ retlist[c][2] = ADJECTIVES[1]
    /\ retlist[c][3] = NOUNS[1]


\* the integer a string of decimal digits denotes
RECURSIVE C23_Value(_)
C23_Value(digits) ==
  IF digits = <<>> THEN 0
  ELSE 10 * C23_Value(SubSeq(digits, 1, Len(digits) - 1))
         + (Ord(digits[Len(digits)]) - Ord("0"))

\* the offsets of the numeric placeholders of a template
C23_NumberHoles(template) ==
  {at \in C22_Holes(template) : C22_HoleName(template, at) = <<"n","u","m">>}

\* the number the random source returned for the placeholder at an offset:
\* the draws are consumed one per placeholder, in template order
C23_DrawAt(template, draws, at) ==
  draws[1 + Cardinality({other \in C22_Holes(template) : other < at})]

\* C23: every token _fill_template produces for the numeric placeholder is
\* the decimal string of the integer n that random.randint returned, with
\* 0 <= n <= 9999: digits only, no sign, no leading zero, 1 to 4 characters
C23_NumberTokenIsPlainDecimal ==
  \A c \in Callers :
    HelperReturned(c, "_fill_template") =>
      \A at \in C23_NumberHoles(args[c].template) :
        LET token == retlist[c][C22_TokenIndex(args[c].template, at)]
            n == C23_DrawAt(args[c].template, args[c].draws, at)
        IN  /\ n \in 0..9999
            /\ Len(token) \in 1..4
            /\ AllDigits(token)
            /\ Len(token) > 1 => token[1] # "0"
            /\ C23_Value(token) = n

\* a template of two numeric placeholders came back with the tokens of both
\* ends of the range, "0" and "9999"
C23_BothEndsProduced ==
  \E c \in Callers :
    /\ HelperReturned(c, "_fill_template")
    /\ C23_NumberHoles(args[c].template) # {}
    /\ retlist[c] = << <<"0">>, <<"9","9","9","9">> >>


\* a text is a candidate of a pattern that has a weight and is registered,
\* whole or cut to the max_length of the call
C24_FromWeightedPattern(c, text) ==
  \E name \in WeightedNames \cap PatternNames :
    \E candidate \in memo.candidates[<<name, args[c].style>>] :
      text \in {candidate, SliceTo(candidate, args[c].max_length)}

\* C24: every key of PATTERN_WEIGHTS is a key of PATTERNS and has a positive
\* integer weight; _pick_weighted_pattern returns only keys of the weight
\* table, so PATTERNS[selected_pattern] is defined after a random pick and a
\* pattern without a weight is never picked; every candidate kept and every
\* name returned by a call without a pattern comes from a weighted pattern
C24_WeightedPickIsRegistered ==
  /\ WeightedNames \subseteq PatternNames
  /\ \A k \in 1..Len(PATTERN_WEIGHTS) :
       PATTERN_WEIGHTS[k][2] \in Nat /\ PATTERN_WEIGHTS[k][2] > 0
  /\ _pick_weighted_pattern # {}
  /\ _pick_weighted_pattern \subseteq WeightedNames
  /\ \A name \in PatternNames \ WeightedNames : name \notin _pick_weighted_pattern
  /\ \A c \in Callers :
       (op[c] = "generate_username" /\ ~Truthy(args[c].pattern)) =>
         /\ SelectedPatterns(args[c].pattern) \subseteq PatternNames
         /\ (pc[c] = "retry_loop" /\ attempt[c] >= 1) =>
              C24_FromWeightedPattern(c, username[c])
         /\ (pc[c] = "done" /\ outcome[c] = "returned") =>
              C24_FromWeightedPattern(c, retval[c])

\* a call without a pattern has picked a pattern at random, kept its
\* candidate and gone on to another attempt
C24_RandomPickMade ==
  \E c \in Callers :
    /\ op[c] = "generate_username"
    /\ args[c].pattern = None
    /\ pc[c] = "retry_loop"
    /\ attempt[c] >= 2
    /\ username[c] # <<>>


\* C25: no operation of the core changes PATTERNS, PATTERN_WEIGHTS or the
\* word tuples, whether it returns or raises: in every state, during a call,
\* after a returned call and after a rejected one, they are what the import
\* left, so the next call sees the same configuration
C25_ConfigurationNeverChanges ==
  config = ImportedConfig

\* a call was rejected with the error of an unknown pattern, and the
\* configuration is as it was
C25_RejectedCallLeftConfiguration ==
  \E c \in Callers :
    /\ pc[c] = "done"
    /\ outcome[c] = "ValueError"
    /\ args[c].pattern = Nonexistent
    /\ config = ImportedConfig


\* the contract of the call of one caller, on what it returned: a unique
\* batch is pairwise distinct and has at most count elements, every name of
\* a batch and the name of a generate_username call is within max_length,
\* and a batch holds only names its own Generator calls produced
C26_OwnContract(c) ==
  (pc[c] = "done" /\ outcome[c] = "returned") =>
    /\ op[c] = "generate_batch" =>
         /\ args[c].unique =>
              PairwiseDistinct(retlist[c]) /\ Len(retlist[c]) <= args[c].count
         /\ \A k \in 1..Len(retlist[c]) : Len(retlist[c][k]) <= args[c].max_length
         /\ Elements(retlist[c]) \subseteq produced[c]
    /\ op[c] = "generate_username" => Len(retval[c]) <= args[c].max_length

\* a running unique batch keeps its own dedup set and result list in step:
\* the list is pairwise distinct, and the set holds exactly its elements,
\* all produced by this caller's own Generator calls
C26_OwnLocals(c) ==
  pc[c] = "batch_loop" =>
    /\ PairwiseDistinct(results[c])
    /\ seen[c] = Elements(results[c])
    /\ seen[c] \subseteq produced[c]

\* a step changes what belongs to one caller at most: nothing of a call is
\* written by the other caller's steps
C26_StepIsLocal ==
  \A c, d \in {1, 2} :
    (c # d /\ Frame(c)' # Frame(c)) => Frame(d)' = Frame(d)

\* C26: when generate_batch(unique=True) and generate_username calls of two
\* callers run interleaved, each call meets its own contract (a pairwise
\* distinct list of at most its own count, each name within its own
\* max_length), because seen, results and username are local to a call: no
\* step of one caller changes anything of the other
C26_InterleavedCallsKeepContract ==
  /\ [](\A c \in {1, 2} : C26_OwnContract(c) /\ C26_OwnLocals(c))
  /\ [][C26_StepIsLocal]_vars

\* a unique batch of one caller has collected a name and is still running
\* while the other caller's generate_username call is past its first attempt
C26_BothCallsUnderWay ==
  \E c, d \in Callers :
    /\ c # d
    /\ pc[c] = "batch_loop"
    /\ args[c].unique
    /\ results[c] # <<>>
    /\ pc[d] = "retry_loop"
    /\ attempt[d] >= 1


\* C27: for every template of PATTERNS, _fill_template returns at least one
\* token and no empty token (no word of the word bank is empty, whichever
\* one is drawn), so generate_username never passes _apply_style an empty
\* token list
C27_RegisteredTemplateGivesTokens ==
  /\ BankWordsAreLowerCaseLetters
  /\ \A c \in Callers :
       (/\ HelperReturned(c, "_fill_template")
        /\ \E name \in PatternNames : args[c].template = PatternTemplate(name)) =>
         /\ Len(retlist[c]) >= 1
         /\ \A k \in 1..Len(retlist[c]) : retlist[c][k] # <<>>

\* the template "{adj}{noun}{num}" of the pattern "classic" came back as
\* three non-empty tokens
C27_ClassicTemplateFilled ==
  \E c \in Callers :
    /\ HelperReturned(c, "_fill_template")
    /\ args[c].template = PatternTemplate(<<"c","l","a","s","s","i","c">>)
    /\ Len(retlist[c]) = 3
    /\ \A k \in 1..3 : retlist[c][k] # <<>>


\* a text is a candidate of a pattern the weighted selection can return,
\* whole or cut to the max_length of the call
C28_FromRandomPick(c, text) ==
  \E name \in _pick_weighted_pattern :
    \E candidate \in memo.candidates[<<name, args[c].style>>] :
      text \in {candidate, SliceTo(candidate, args[c].max_length)}

\* C28: generate_username treats the pattern "" like no pattern: the empty
\* string is no key of PATTERNS, yet the call raises no error, every attempt
\* selects by _pick_weighted_pattern as for None, and the candidate kept
\* and the name returned come from a pattern of the weighted selection
C28_EmptyPatternIsLikeNone ==
  /\ <<>> \notin PatternNames
  /\ SelectedPatterns(<<>>) = SelectedPatterns(None)
  /\ \A c \in Callers :
       (/\ op[c] = "generate_username"
        /\ args[c].pattern = <<>>
        /\ args[c].include = Absent) =>
         /\ outcome[c] \in {"none", "returned"}
         /\ pc[c] \in {"retry_loop", "done"}
         /\ (pc[c] = "retry_loop" /\ attempt[c] >= 1) =>
              C28_FromRandomPick(c, username[c])
         /\ pc[c] = "done" =>
              outcome[c] = "returned" /\ C28_FromRandomPick(c, retval[c])

\* a call with the pattern "" is past its second attempt, its last candidate
\* (too long for the default max_length) one of the pattern "duo", which
\* only the random selection could pick
C28_EmptyPatternRetried ==
  \E c \in Callers :
    /\ op[c] = "generate_username"
    /\ args[c].pattern = <<>>
    /\ pc[c] = "retry_loop"
    /\ attempt[c] >= 2
    /\ username[c] \in memo.candidates[<< <<"d","u","o">>, args[c].style>>]


\* a generate_batch call that names a pattern absent from PATTERNS
C29_BatchOfUnknownPattern(c) ==
  /\ op[c] = "generate_batch"
  /\ args[c].include = Absent
  /\ Truthy(args[c].pattern)
  /\ args[c].pattern \notin PatternNames

\* C29: generate_batch checks the pattern name only through its
\* generate_username calls: with count <= 0 and a name absent from PATTERNS
\* it makes no call, returns the empty list and raises nothing; with
\* count >= 1 the first generate_username call raises, the ValueError leaves
\* generate_batch with the message of that call, and no list is returned
C29_UnknownPatternSurfacesAtFirstCall ==
  \A c \in Callers :
    C29_BatchOfUnknownPattern(c) =>
      /\ produced[c] = {}
      /\ args[c].count <= 0 =>
           /\ pc[c] = "done"
           /\ outcome[c] = "returned"
           /\ retlist[c] = <<>>
           /\ errmsg[c] = <<>>
      /\ args[c].count >= 1 =>
           /\ pc[c] \in {"comprehension", "batch_loop", "done"}
           /\ pc[c] # "done" =>
                iter[c] = 0 /\ results[c] = <<>> /\ outcome[c] = "none"
           /\ pc[c] = "done" =>
                /\ outcome[c] = "ValueError"
                /\ errmsg[c] = UnknownPatternMessage(args[c].pattern)
                /\ retlist[c] = <<>>

\* a batch of count 0 of an unknown pattern came back as the empty list
C29_UnknownPatternWentUnnoticed ==
  \E c \in Callers :
    /\ C29_BatchOfUnknownPattern(c)
    /\ args[c].count = 0
    /\ pc[c] = "done"
    /\ outcome[c] = "returned"
    /\ retlist[c] = <<>>

\* a unique batch of count 2 of an unknown pattern ended with the ValueError
\* of its first generate_username call
C29_FirstCallRaised ==
  \E c \in Callers :
    /\ C29_BatchOfUnknownPattern(c)
    /\ args[c].count = 2
    /\ args[c].unique
    /\ pc[c] = "done"
    /\ outcome[c] = "ValueError"


\* a generate_username call with a pattern it accepts and a max_length of
\* zero or less
C30_NothingCanFit(c) ==
  /\ op[c] = "generate_username"
  /\ args[c].include = Absent
  /\ ~(Truthy(args[c].pattern) /\ args[c].pattern \notin PatternNames)
  /\ args[c].max_length <= 0

\* while such a call runs, the candidate it holds after a failed attempt is
\* a non-empty candidate of its request
C30_CandidateOverflows ==
  \A c \in Callers :
    (C30_NothingCanFit(c) /\ pc[c] = "retry_loop" /\ attempt[c] >= 1) =>
      /\ Len(username[c]) >= 1
      /\ \E name \in SelectedPatterns(args[c].pattern) :
           username[c] \in memo.candidates[<<name, args[c].style>>]

\* a text without its final n characters (nothing is left of a text of n
\* characters or fewer)
C30_WithoutLast(text, n) ==
  IF Len(text) <= n THEN <<>> ELSE SubSeq(text, 1, Len(text) - n)

\* the step in which such a call returns: it is taken after all 50 attempts,
\* and returns "" for max_length 0 and the last candidate without its final
\* |max_length| characters for a negative max_length
C30_ReturnStep(c) ==
  (C30_NothingCanFit(c) /\ pc[c] = "retry_loop" /\ pc'[c] = "done") =>
    /\ attempt[c] = 50
    /\ outcome'[c] = "returned"
    /\ args[c].max_length = 0 => retval'[c] = <<>>
    /\ args[c].max_length < 0 =>
         retval'[c] = C30_WithoutLast(username[c], 0 - args[c].max_length)

\* C30: generate_username with max_length 0 and a valid or absent pattern
\* runs all 50 attempts, since no candidate fits, and returns the empty
\* string; with a negative max_length it also runs all 50 and returns the
\* last candidate with its final |max_length| characters removed, a name
\* that can be longer than max_length
C30_ZeroAndNegativeMaxLength ==
  /\ []C30_CandidateOverflows
  /\ [][\A c \in Callers : C30_ReturnStep(c)]_vars

\* a call with max_length -2 returned a non-empty name, longer than its
\* max_length
C30_NegativeMaxLengthReturnedName ==
  \E c \in Callers :
    /\ C30_NothingCanFit(c)
    /\ args[c].max_length = -2
    /\ pc[c] = "done"
    /\ outcome[c] = "returned"
    /\ Len(retval[c]) >= 1
    /\ Len(retval[c]) > args[c].max_length

\* a call with max_length 0 and no pattern returned the empty string
C30_ZeroMaxLengthReturnedEmpty ==
  \E c \in Callers :
    /\ C30_NothingCanFit(c)
    /\ args[c].max_length = 0
    /\ args[c].pattern = None
    /\ pc[c] = "done"
    /\ outcome[c] = "returned"
    /\ retval[c] = <<>>

=============================================================================
